---- MODULE Spec2Model ----
(***************************************************************************)
(* Verification model of the bland-gcp-migration normalisation services:   *)
(* the natural-language time parser (services/time-parser and its          *)
(* variants), the date-of-birth normaliser (services/dob-normalize and its *)
(* chrono variant).                                                        *)
(*                                                                         *)
(* Texts are sequences of one-character strings, so that the code's        *)
(* substring tests (String.includes), regular-expression matches and       *)
(* replacements are computed on characters.  Calendar days of the time     *)
(* parser are day numbers counted from a Sunday, so that weekday = day % 7 *)
(* as moment's day() gives it (0 = Sunday) and 'YYYY-MM-DD' strings        *)
(* compare as their day numbers do.                                        *)
(* Calendar dates of the date-of-birth normaliser are [year, month, day]   *)
(* records, read from and written to texts digit by digit.                 *)
(***************************************************************************)
EXTENDS Integers, Sequences, FiniteSets, TLC

VARIABLES
  \* ---- time parser: the functions applied to an input ----
  text,        \* the text handed to the function
  today,       \* moment.tz(timezone): the caller's current day number
  chrono,      \* what chrono.parse returned for the text
  parsed,      \* the parser's result object, or Null before the call
  consulted,   \* strategies consulted by the multi-strategy parser, in order
  tod,         \* what determineTimeOfDay returned, "" before the call
  range,       \* the range of the cached parser's broad pattern, or Null
  fn,          \* which function was applied, "input" before
  \* ---- time parser: HTTP handler ----
  variant,     \* "nlp" = services/time-parser/index.js, "gemini" = its successor
  secret,      \* whether GCP_WEBHOOK_SECRET is set in the environment
  req,         \* the request
  pc,          \* the handler's position
  res,         \* the response sent, or Null
  calls,       \* the steps the handler started, in order
  \* ---- date-of-birth normaliser ----
  server,      \* the service deployed and what it reads from its surroundings
  cache,       \* the NodeCache of normalised dates: cache key -> response
  dobReq,      \* the body of the last DOB request, or Null
  dobRes,      \* the response to it, or Null
  served,      \* the number of DOB requests answered
  tried,       \* the strategies the last DOB request went through, in order
  resent,      \* the dob_iso of the answer before, when the last DOB request
               \* sent it back as raw_dob, or Null
  \* ---- word numbers of the date-of-birth normaliser ----
  phrase,      \* a spoken year and the text that holds it, or Null
  numerals,    \* convertWordNumbers of that text, or Null
  \* ---- slot matcher (POST /webhook/check-timeslots) ----
  WEBHOOK_SECRET, \* BLAND_WEBHOOK_SECRET of the slot matcher, "" when not set
  SKIP_SIGNATURE, \* whether SKIP_SIGNATURE_VALIDATION is 'true'
  firestore,   \* the documents of doctor_scheduling, in the order of their ids
  slotReq,     \* the request being handled, or Null
  pending,     \* the store query that findBestSlots awaits, or Null
  queries,     \* the store queries issued for the request, in order
  allSlots,    \* the documents findBestSlots has collected
  slotRes,     \* the response sent, or Null
  \* ---- time parser with the pattern cache (part_005) ----
  clock, \* Date.now(): minutes since a Sunday's midnight in New York
  patterns, \* the NodeCache of parsed patterns: cache key -> result and expiry
  parseReq, \* the body of the last parse request, or Null
  parseRes, \* the response to it, or Null
  \* ---- executeWithRetry of the availability service (date-parser-v2) ----
  attempt, \* the loop variable of executeWithRetry
  retryPc, \* where executeWithRetry stands: "operation", "timer", "returned", "thrown"
  lastError, \* the error caught last, or Null
  rejections, \* the errors the operation rejected with, in order
  waited, \* the delays of the timers set, in order
  invoked, \* how often the operation was called
  settled, \* the value returned or the error thrown, or Null
  \* ---- availability service (POST /api/available-slots of date-parser-v2) ----
  avCache, \* the NodeCache of the availability service: the zip codes cached, each with its state
  avReq, \* the body of the request being handled, or Null
  avPc, \* where the handler stands: "idle", "zip", "fetch", "done"
  avState, \* what resolvePatientState returned, as <<state>>, or Null before it returns
  avRes, \* the response sent, or Null
  \* ---- mock availability service (services/availability) ----
  mockReq, \* the body of the request, or Null
  mockRes, \* the response sent, or Null
  \* ---- word separation of the time parser applied on its own ----
  spoken, \* the text handed to enhancedWordSeparation, or Null
  separated, \* enhancedWordSeparation of it, or Null
  reseparated, \* enhancedWordSeparation of that, or Null
  \* ---- email cleaner (services/email-cleaner) ----
  emailReq, \* the email field of the request being handled, or Null
  analysis, \* what languageClient.analyzeEntities answered, or Null while awaited
  emailRes \* the response sent, or Null

vars == <<text, today, chrono, parsed, consulted, tod, range, fn,
          variant, secret, req, pc, res, calls, server, cache, dobReq, dobRes,
          served, tried, resent, phrase,
          numerals, WEBHOOK_SECRET, SKIP_SIGNATURE, firestore, slotReq, pending, queries,
          allSlots, slotRes,
          clock, patterns, parseReq, parseRes, attempt, retryPc, lastError, rejections, waited, invoked, settled, avCache, avReq, avPc, avState, avRes, mockReq, mockRes, spoken, separated, reseparated, emailReq, analysis, emailRes>>

timeVars == <<text, today, chrono, parsed, consulted, tod, range, fn,
              variant, secret, req, pc, res, calls>>

dobVars == <<server, cache, dobReq, dobRes, served, tried, resent>>

wordVars == <<phrase, numerals>>

slotVars == <<WEBHOOK_SECRET, SKIP_SIGNATURE, firestore, slotReq, pending, queries, allSlots, slotRes>>

patternVars == <<clock, patterns, parseReq, parseRes>>

retryVars == <<attempt, retryPc, lastError, rejections, waited, invoked, settled>>

availVars == <<avCache, avReq, avPc, avState, avRes>>

mockVars == <<mockReq, mockRes>>

sepVars == <<spoken, separated, reseparated>>

emailVars == <<emailReq, analysis, emailRes>>

\* the variables of the services modelled after the slot matcher
restVars == <<patternVars, retryVars, availVars, mockVars, sepVars, emailVars>>

\* the variables that each service leaves alone
notTimeVars == <<dobVars, wordVars, slotVars, restVars>>
notDobVars == <<timeVars, wordVars, slotVars, restVars>>
notWordVars == <<timeVars, dobVars, slotVars, restVars>>
notSlotVars == <<timeVars, dobVars, wordVars, restVars>>
notPatternVars == <<timeVars, dobVars, wordVars, slotVars, retryVars, availVars, mockVars, sepVars, emailVars>>
notRetryVars == <<timeVars, dobVars, wordVars, slotVars, patternVars, availVars, mockVars, sepVars, emailVars>>
notAvailVars == <<timeVars, dobVars, wordVars, slotVars, patternVars, retryVars, mockVars, sepVars, emailVars>>
notMockVars == <<timeVars, dobVars, wordVars, slotVars, patternVars, retryVars, availVars, sepVars, emailVars>>
notSepVars == <<timeVars, dobVars, wordVars, slotVars, patternVars, retryVars, availVars, mockVars, emailVars>>
notEmailVars == <<timeVars, dobVars, wordVars, slotVars, patternVars, retryVars, availVars, mockVars, sepVars>>

\* null and undefined are the empty tuple, a present value v is <<v>>
Null == <<>>
Some(v) == <<v>>

------------------------------------------------------------------------------
(* Characters and texts *)

Letters ==
  {"a","b","c","d","e","f","g","h","i","j","k","l","m",
   "n","o","p","q","r","s","t","u","v","w","x","y","z"}

\* String.prototype.toLowerCase, on the alphabet of the model
LowerChar(c) ==
  IF c = "A" THEN "a" ELSE IF c = "T" THEN "t" ELSE IF c = "M" THEN "m"
  ELSE IF c = "J" THEN "j" ELSE IF c = "F" THEN "f" ELSE IF c = "S" THEN "s"
  ELSE IF c = "O" THEN "o" ELSE IF c = "N" THEN "n" ELSE IF c = "D" THEN "d"
  ELSE c

toLowerCase(t) == [i \in 1..Len(t) |-> LowerChar(t[i])]

IsLetter(c) == LowerChar(c) \in Letters

DigitChars == <<"0","1","2","3","4","5","6","7","8","9">>

IsDigit(c) == \E i \in 1..10 : DigitChars[i] = c

\* String.prototype.includes
Includes(t, p) ==
  \E i \in 0..(Len(t) - Len(p)) : SubSeq(t, i + 1, i + Len(p)) = p

\* Array.prototype.join(' ')
RECURSIVE Join(_)
Join(ws) ==
  IF ws = <<>> THEN <<>>
  ELSE IF Len(ws) = 1 THEN ws[1]
  ELSE ws[1] \o <<" ">> \o Join(Tail(ws))

\* String.prototype.split(/\s+/) without the empty pieces
RECURSIVE Words(_)
Words(t) ==
  IF t = <<>> THEN <<>>
  ELSE IF t[1] = " " THEN Words(Tail(t))
  ELSE LET n == IF \E i \in 1..Len(t) : t[i] = " "
                THEN (CHOOSE i \in 1..Len(t) :
                        t[i] = " " /\ \A j \in 1..(i - 1) : t[j] # " ") - 1
                ELSE Len(t)
       IN <<SubSeq(t, 1, n)>> \o Words(SubSeq(t, n + 1, Len(t)))

\* text.replace(/\s+/g, ' ').trim()
collapseSpaces(t) == Join(Words(t))

\* String(n) for a natural number n
RECURSIVE NatToText(_)
NatToText(n) ==
  IF n < 10 THEN <<DigitChars[n + 1]>>
  ELSE NatToText(n \div 10) \o <<DigitChars[(n % 10) + 1]>>

\* text.replace(new RegExp(pat, 'g'), by) for a literal pattern
RECURSIVE ReplaceAll(_, _, _)
ReplaceAll(t, pat, by) ==
  IF Len(t) < Len(pat) \/ pat = <<>> THEN t
  ELSE IF SubSeq(t, 1, Len(pat)) = pat
       THEN by \o ReplaceAll(SubSeq(t, Len(pat) + 1, Len(t)), pat, by)
       ELSE <<t[1]>> \o ReplaceAll(Tail(t), pat, by)

\* Words and phrases the code tests for
Lex ==
 [
  morning |-> <<"m","o","r","n","i","n","g">>,
  am |-> <<"a","m">>,
  afternoon |-> <<"a","f","t","e","r","n","o","o","n">>,
  pm |-> <<"p","m">>,
  evening |-> <<"e","v","e","n","i","n","g">>,
  night |-> <<"n","i","g","h","t">>,
  tonight |-> <<"t","o","n","i","g","h","t">>,
  urgent |-> <<"u","r","g","e","n","t">>,
  asap |-> <<"a","s","a","p">>,
  emergency |-> <<"e","m","e","r","g","e","n","c","y">>,
  soon |-> <<"s","o","o","n">>,
  any |-> <<"a","n","y">>,
  flexible |-> <<"f","l","e","x","i","b","l","e">>,
  whenever |-> <<"w","h","e","n","e","v","e","r">>,
  open |-> <<"o","p","e","n">>,
  monday |-> <<"m","o","n","d","a","y">>,
  tuesday |-> <<"t","u","e","s","d","a","y">>,
  wednesday |-> <<"w","e","d","n","e","s","d","a","y">>,
  thursday |-> <<"t","h","u","r","s","d","a","y">>,
  friday |-> <<"f","r","i","d","a","y">>,
  saturday |-> <<"s","a","t","u","r","d","a","y">>,
  sunday |-> <<"s","u","n","d","a","y">>,
  today |-> <<"t","o","d","a","y">>,
  tomorrow |-> <<"t","o","m","o","r","r","o","w">>,
  yesterday |-> <<"y","e","s","t","e","r","d","a","y">>,
  january |-> <<"j","a","n","u","a","r","y">>,
  february |-> <<"f","e","b","r","u","a","r","y">>,
  march |-> <<"m","a","r","c","h">>,
  april |-> <<"a","p","r","i","l">>,
  may |-> <<"m","a","y">>,
  june |-> <<"j","u","n","e">>,
  july |-> <<"j","u","l","y">>,
  august |-> <<"a","u","g","u","s","t">>,
  september |-> <<"s","e","p","t","e","m","b","e","r">>,
  october |-> <<"o","c","t","o","b","e","r">>,
  november |-> <<"n","o","v","e","m","b","e","r">>,
  december |-> <<"d","e","c","e","m","b","e","r">>,
  next |-> <<"n","e","x","t">>,
  this |-> <<"t","h","i","s">>,
  last |-> <<"l","a","s","t">>,
  week |-> <<"w","e","e","k">>,
  month |-> <<"m","o","n","t","h">>,
  year |-> <<"y","e","a","r">>,
  anytime |-> <<"a","n","y","t","i","m","e">>,
  time |-> <<"t","i","m","e">>,
  day |-> <<"d","a","y">>,
  available |-> <<"a","v","a","i","l","a","b","l","e">>,
  appointment |-> <<"a","p","p","o","i","n","t","m","e","n","t">>,
  slot |-> <<"s","l","o","t">>,
  first |-> <<"f","i","r","s","t">>,
  earliest |-> <<"e","a","r","l","i","e","s","t">>,
  breakfast |-> <<"b","r","e","a","k","f","a","s","t">>,
  lunch |-> <<"l","u","n","c","h">>,
  dinner |-> <<"d","i","n","n","e","r">>,
  supper |-> <<"s","u","p","p","e","r">>,
  as_ |-> <<"a","s">>,
  possible |-> <<"p","o","s","s","i","b","l","e">>,
  at_ |-> <<"a","t">>,
  xyz |-> <<"x","y","z">>,
  is_ |-> <<"i","s">>,
  good |-> <<"g","o","o","d">>,
  in_ |-> <<"i","n">>,
  the |-> <<"t","h","e">>,
  exam |-> <<"e","x","a","m">>,
  to |-> <<"t","o">>
 ]

\* numberWords of convertSpokenNumbersToDigits, value as the integer parseInt gives
numberWords ==
 <<
  <<<<"z","e","r","o">>, 0>>,
  <<<<"o","n","e">>, 1>>,
  <<<<"t","w","o">>, 2>>,
  <<<<"t","h","r","e","e">>, 3>>,
  <<<<"f","o","u","r">>, 4>>,
  <<<<"f","i","v","e">>, 5>>,
  <<<<"s","i","x">>, 6>>,
  <<<<"s","e","v","e","n">>, 7>>,
  <<<<"e","i","g","h","t">>, 8>>,
  <<<<"n","i","n","e">>, 9>>,
  <<<<"t","e","n">>, 10>>,
  <<<<"e","l","e","v","e","n">>, 11>>,
  <<<<"t","w","e","l","v","e">>, 12>>,
  <<<<"t","h","i","r","t","e","e","n">>, 13>>,
  <<<<"f","o","u","r","t","e","e","n">>, 14>>,
  <<<<"f","i","f","t","e","e","n">>, 15>>,
  <<<<"s","i","x","t","e","e","n">>, 16>>,
  <<<<"s","e","v","e","n","t","e","e","n">>, 17>>,
  <<<<"e","i","g","h","t","e","e","n">>, 18>>,
  <<<<"n","i","n","e","t","e","e","n">>, 19>>,
  <<<<"t","w","e","n","t","y">>, 20>>,
  <<<<"t","h","i","r","t","y">>, 30>>,
  <<<<"f","o","r","t","y">>, 40>>,
  <<<<"f","i","f","t","y">>, 50>>,
  <<<<"s","i","x","t","y">>, 60>>,
  <<<<"s","e","v","e","n","t","y">>, 70>>,
  <<<<"e","i","g","h","t","y">>, 80>>,
  <<<<"n","i","n","e","t","y">>, 90>>
 >>

------------------------------------------------------------------------------
(* services/time-parser/index.js: preprocessing.                          *)
(* The word-level operators below are exact for texts whose words are      *)
(* separated by spaces and hold letters and digits only, which is what the *)
(* requests of the model are.                                              *)

NumVal(w) == (CHOOSE i \in DOMAIN numberWords : numberWords[i][1] = w)

IsNumWord(w, vals) ==
  \E i \in DOMAIN numberWords : numberWords[i][1] = w /\ numberWords[i][2] \in vals

NumOf(w) == numberWords[NumVal(w)][2]

TensVals == {20, 30, 40, 50, 60, 70, 80, 90}
OnesVals == 1..9

\* a tens word and a ones word written as one word, with or without a hyphen
GluedCompound(w) ==
  \E i, j \in DOMAIN numberWords :
    /\ numberWords[i][2] \in TensVals /\ numberWords[j][2] \in OnesVals
    /\ \/ w = numberWords[i][1] \o numberWords[j][1]
       \/ w = numberWords[i][1] \o <<"-">> \o numberWords[j][1]

GluedValue(w) ==
  LET p == CHOOSE p \in (DOMAIN numberWords) \X (DOMAIN numberWords) :
             /\ numberWords[p[1]][2] \in TensVals /\ numberWords[p[2]][2] \in OnesVals
             /\ \/ w = numberWords[p[1]][1] \o numberWords[p[2]][1]
                \/ w = numberWords[p[1]][1] \o <<"-">> \o numberWords[p[2]][1]
  IN numberWords[p[1]][2] + numberWords[p[2]][2]

\* /\b(twenty|...|ninety)[\s-]?(one|...|nine)\b/gi -> String(tens + ones)
RECURSIVE compoundNumbers(_)
compoundNumbers(ws) ==
  IF ws = <<>> THEN <<>>
  ELSE IF Len(ws) >= 2 /\ IsNumWord(ws[1], TensVals) /\ IsNumWord(ws[2], OnesVals)
       THEN <<NatToText(NumOf(ws[1]) + NumOf(ws[2]))>>
            \o compoundNumbers(SubSeq(ws, 3, Len(ws)))
       ELSE IF GluedCompound(ws[1])
            THEN <<NatToText(GluedValue(ws[1]))>> \o compoundNumbers(Tail(ws))
            ELSE <<ws[1]>> \o compoundNumbers(Tail(ws))

\* the three groups of datePattern that can still occur once the compounds
\* are digits: month word, day word, year word
MonthWordVals == (1..20) \cup TensVals
DayWordVals == (1..20) \cup {30}
YearWordVals == {90, 19, 20, 30}

\* "Assume 1900s for years > 30, 2000s for years <= 30"
spokenYear(y) ==
  IF Len(y) = 2
  THEN IF (CHOOSE i \in 0..9 : DigitChars[i + 1] = y[1]) * 10
          + (CHOOSE i \in 0..9 : DigitChars[i + 1] = y[2]) > 30
       THEN <<"1", "9">> \o y ELSE <<"2", "0">> \o y
  ELSE y

spokenDate(m, d, y) ==
  NatToText(NumOf(m)) \o <<"/">> \o NatToText(NumOf(d)) \o <<"/">> \o spokenYear(y)

\* processedText.replace(datePattern, ...): a match that is followed by a
\* further word takes the space before it, its split has an empty last part
\* and the callback returns the match unchanged
RECURSIVE spokenDates(_)
spokenDates(ws) ==
  IF Len(ws) < 3 THEN ws
  ELSE IF /\ IsNumWord(ws[1], MonthWordVals)
          /\ IsNumWord(ws[2], DayWordVals)
          /\ IsNumWord(ws[3], YearWordVals)
       THEN IF Len(ws) >= 4 /\ IsNumWord(ws[4], OnesVals)
            THEN <<spokenDate(ws[1], ws[2],
                              NatToText(NumOf(ws[3])) \o NatToText(NumOf(ws[4])))>>
                 \o spokenDates(SubSeq(ws, 5, Len(ws)))
            ELSE IF Len(ws) = 3
                 THEN <<spokenDate(ws[1], ws[2], NatToText(NumOf(ws[3])))>>
                 ELSE SubSeq(ws, 1, 3) \o spokenDates(SubSeq(ws, 4, Len(ws)))
       ELSE <<ws[1]>> \o spokenDates(Tail(ws))

\* "\b" inside a template literal is the backspace character U+0008, so
\* new RegExp(`\b${word}\b`) looks for the word between two backspaces
BS == "\\b"

RECURSIVE replaceBetweenBackspaces(_, _, _)
replaceBetweenBackspaces(t, table, by) ==
  IF table = <<>> \/ Len(t) = 0 THEN t
  ELSE replaceBetweenBackspaces(
         ReplaceAll(t, <<BS>> \o table[1][1] \o <<BS>>, by[1]),
         Tail(table), Tail(by))

convertSpokenNumbersToDigits(t) ==
  replaceBetweenBackspaces(
    Join(spokenDates(compoundNumbers(Words(t)))),
    numberWords,
    [i \in DOMAIN numberWords |-> NatToText(numberWords[i][2])])

timeKeywords ==
  <<Lex.anytime, Lex.any, Lex.time, Lex.day, Lex.this, Lex.next, Lex.last,
    Lex.week, Lex.month, Lex.year, Lex.morning, Lex.afternoon, Lex.evening,
    Lex.night, Lex.today, Lex.tomorrow, Lex.yesterday>>

dayNames ==
  <<Lex.monday, Lex.tuesday, Lex.wednesday, Lex.thursday,
    Lex.friday, Lex.saturday, Lex.sunday>>

monthNames ==
  <<Lex.january, Lex.february, Lex.march, Lex.april, Lex.may, Lex.june,
    Lex.july, Lex.august, Lex.september, Lex.october, Lex.november, Lex.december>>

\* [...].sort((a, b) => b.length - a.length): longest first, stable
RECURSIVE byLengthFrom(_, _)
byLengthFrom(ks, n) ==
  IF n = 0 THEN <<>>
  ELSE SelectSeq(ks, LAMBDA k : Len(k) = n) \o byLengthFrom(ks, n - 1)

LongestKeyword == 9

allKeywords == byLengthFrom(timeKeywords \o dayNames \o monthNames, LongestKeyword)

\* end of the run of letters that starts at position i
RECURSIVE runEnd(_, _)
runEnd(t, i) == IF i < Len(t) /\ IsLetter(t[i + 1]) THEN runEnd(t, i + 1) ELSE i

At(t, i, k) == i + Len(k) - 1 <= Len(t) /\ SubSeq(t, i, i + Len(k) - 1) = k

\* separated.replace(/(keyword)([a-z]+)/gi, '$1 $2')
RECURSIVE splitAfter(_, _)
splitAfter(t, k) ==
  LET hits == {i \in 1..Len(t) :
                 At(t, i, k) /\ i + Len(k) <= Len(t) /\ IsLetter(t[i + Len(k)])}
  IN IF hits = {} THEN t
     ELSE LET i == CHOOSE i \in hits : \A j \in hits : i <= j
              e == runEnd(t, i + Len(k))
          IN SubSeq(t, 1, i + Len(k) - 1) \o <<" ">> \o SubSeq(t, i + Len(k), e)
             \o splitAfter(SubSeq(t, e + 1, Len(t)), k)

\* separated.replace(/([a-z]+)(keyword)/gi, '$1 $2'): the greedy [a-z]+ ends
\* at the last occurrence of the keyword in the run of letters
RECURSIVE splitBefore(_, _)
splitBefore(t, k) ==
  LET last(i) == {q \in (i + 1)..runEnd(t, i) : At(t, q, k)}
      hits == {i \in 1..Len(t) : IsLetter(t[i]) /\ last(i) # {}}
  IN IF hits = {} THEN t
     ELSE LET i == CHOOSE i \in hits : \A j \in hits : i <= j
              q == CHOOSE q \in last(i) : \A r \in last(i) : r <= q
          IN SubSeq(t, 1, q - 1) \o <<" ">> \o k
             \o splitBefore(SubSeq(t, q + Len(k), Len(t)), k)

IsWordChar(c) == IsLetter(c) \/ IsDigit(c) \/ c = "_"

\* text.replace(/\bword\b/gi, by), scanning from position i
RECURSIVE replaceWord(_, _, _, _)
replaceWord(t, i, w, by) ==
  IF i > Len(t) THEN <<>>
  ELSE IF /\ At(t, i, w)
          /\ (i = 1 \/ ~IsWordChar(t[i - 1]))
          /\ (i + Len(w) > Len(t) \/ ~IsWordChar(t[i + Len(w)]))
       THEN by \o replaceWord(t, i + Len(w), w, by)
       ELSE <<t[i]>> \o replaceWord(t, i + 1, w, by)

RECURSIVE separateAll(_, _)
separateAll(t, ks) ==
  IF ks = <<>> \/ Len(t) = 0 THEN t
  ELSE separateAll(splitBefore(splitAfter(t, ks[1]), ks[1]), Tail(ks))

\* the last step is /\banytime\b/gi -> 'any time'
enhancedWordSeparation(t) ==
  replaceWord(separateAll(t, allKeywords), 1, Lex.anytime,
              Lex.any \o <<" ">> \o Lex.time)

typoMap ==
 <<
  <<<<"t","o","m","o","r","o","w">>, <<"t","o","m","o","r","r","o","w">>>>,
  <<<<"t","o","m","m","o","r","o","w">>, <<"t","o","m","o","r","r","o","w">>>>,
  <<<<"w","e","n","d","s","d","a","y">>, <<"w","e","d","n","e","s","d","a","y">>>>,
  <<<<"w","e","n","s","d","a","y">>, <<"w","e","d","n","e","s","d","a","y">>>>,
  <<<<"t","h","r","u","s","d","a","y">>, <<"t","h","u","r","s","d","a","y">>>>,
  <<<<"f","e","b","u","a","r","y">>, <<"f","e","b","r","u","a","r","y">>>>,
  <<<<"j","a","n","u","r","a","r","y">>, <<"j","a","n","u","a","r","y">>>>
 >>

synonymMap ==
 <<
  <<<<"n","o","o","n">>, <<"1","2",":","0","0","p","m">>>>,
  <<<<"m","i","d","d","a","y">>, <<"1","2",":","0","0","p","m">>>>,
  <<<<"m","i","d","n","i","g","h","t">>, <<"1","2",":","0","0","a","m">>>>,
  <<<<"e","n","d"," ","o","f"," ","t","h","e"," ","w","e","e","k">>, <<"f","r","i","d","a","y">>>>,
  <<<<"e","o","d">>, <<"5",":","0","0","p","m">>>>,
  <<<<"e","n","d"," ","o","f"," ","d","a","y">>, <<"5",":","0","0","p","m">>>>
 >>

preprocessNaturalTime(t) ==
  IF t = <<>> THEN <<>>
  ELSE collapseSpaces(
         replaceBetweenBackspaces(
           replaceBetweenBackspaces(
             enhancedWordSeparation(convertSpokenNumbersToDigits(toLowerCase(t))),
             typoMap, [i \in DOMAIN typoMap |-> typoMap[i][2]]),
           synonymMap, [i \in DOMAIN synonymMap |-> synonymMap[i][2]]))

------------------------------------------------------------------------------
(* chrono-node is an external library: what chrono.parse returns for a     *)
(* text is an input of the model.  kind "none": no result; "throws": the   *)
(* call throws; "ok": a first result whose date lies offset days from the  *)
(* reference day, ymd = get('year'), get('month') and get('day') are all   *)
(* defined, hour = get('hour'), Null when undefined.                        *)

FarPast == 400
FarFuture == 800

ChronoHours == {3, 9, 14, 20}

ChronoOutcomes ==
  {[kind |-> k, offset |-> 0, ymd |-> FALSE, hour |-> Null] : k \in {"none", "throws"}}
  \cup [kind : {"ok"}, offset : {0 - FarPast, 1, FarFuture}, ymd : BOOLEAN,
        hour : {Some(h) : h \in ChronoHours} \cup {Null}]

\* a result object of the time parser; absent properties are Null or FALSE
NoResult ==
  [date |-> Null, time_of_day |-> "any", confidence |-> "low",
   flexible |-> FALSE, urgent |-> FALSE, date_range |-> Null, note |-> "",
   partial_info |-> Null, needs_clarification |-> FALSE, parser |-> ""]

------------------------------------------------------------------------------
(* services/time-parser/index.js: the parsers *)

determineTimeOfDay(c, t) ==
  LET lowerText == toLowerCase(t) IN
  IF Includes(lowerText, Lex.morning) \/ Includes(lowerText, Lex.am) THEN "morning"
  ELSE IF \/ Includes(lowerText, Lex.afternoon)
          \/ (Includes(lowerText, Lex.pm) /\ ~Includes(lowerText, Lex.evening))
       THEN "afternoon"
  ELSE IF \/ Includes(lowerText, Lex.evening) \/ Includes(lowerText, Lex.night)
          \/ Includes(lowerText, Lex.tonight)
       THEN "evening"
  ELSE IF c.hour # Null /\ c.hour[1] >= 5 /\ c.hour[1] < 12 THEN "morning"
  ELSE IF c.hour # Null /\ c.hour[1] >= 12 /\ c.hour[1] < 17 THEN "afternoon"
  ELSE IF c.hour # Null /\ c.hour[1] >= 17 /\ c.hour[1] < 24 THEN "evening"
  ELSE "any"

highConfidenceKeywords ==
  <<Lex.today, Lex.tomorrow, Lex.yesterday>> \o dayNames \o monthNames

mediumConfidenceKeywords ==
  <<Lex.next, Lex.this, Lex.last, Lex.week, Lex.month, Lex.year,
    Lex.morning, Lex.afternoon, Lex.evening, Lex.night>>

IncludesSome(t, ks) == \E i \in DOMAIN ks : Includes(t, ks[i])

determineConfidence(c, t) ==
  IF c.ymd THEN "high"
  ELSE IF IncludesSome(toLowerCase(t), highConfidenceKeywords) THEN "high"
  ELSE IF IncludesSome(toLowerCase(t), mediumConfidenceKeywords) THEN "medium"
  ELSE "low"

parseNaturalTime(t, d, c) ==
  IF c.kind # "ok" THEN NoResult
  ELSE [NoResult EXCEPT !.date = Some(d + c.offset),
                        !.time_of_day = determineTimeOfDay(c, t),
                        !.confidence = determineConfidence(c, t)]

\* moment: startOf('week') and endOf('week') in the default locale, where the
\* week starts on Sunday, and add(n, 'week')
DaysPerWeek == 7
LastWeekday == 6

startOfWeek(d) == d - (d % DaysPerWeek)
endOfWeek(d) == startOfWeek(d) + LastWeekday
addWeeks(d, n) == d + n * DaysPerWeek

\* String.prototype.trim
RECURSIVE trim(_)
trim(t) ==
  IF t = <<>> THEN t
  ELSE IF t[1] = " " THEN trim(Tail(t))
  ELSE IF t[Len(t)] = " " THEN trim(SubSeq(t, 1, Len(t) - 1))
  ELSE t

\* positions where the phrase stands between two word boundaries (\b...\b)
PhraseAt(t, p) ==
  {i \in 1..Len(t) :
     /\ At(t, i, p)
     /\ (i = 1 \/ ~IsWordChar(t[i - 1]))
     /\ (i + Len(p) > Len(t) \/ ~IsWordChar(t[i + Len(p)]))}

Phrases(firsts, seconds) ==
  {Join(<<firsts[i], seconds[j]>>) : i \in DOMAIN firsts, j \in DOMAIN seconds}

\* lowerText.match(regex)[0] for a regex that is an alternation of phrases:
\* the leftmost match, or Null
firstMatch(t, phrases) ==
  LET found == {p \in phrases : PhraseAt(t, p) # {}}
      pos(p) == CHOOSE i \in PhraseAt(t, p) : \A j \in PhraseAt(t, p) : i <= j
  IN IF found = {} THEN Null
     ELSE Some(CHOOSE p \in found :
                 \A q \in found :
                   pos(p) < pos(q) \/ (pos(p) = pos(q) /\ Len(p) >= Len(q)))

\* 'any time this week' and the handler of the first partial pattern
weekResult(d, weekOffset) ==
  [NoResult EXCEPT !.date = Some(endOfWeek(addWeeks(d, weekOffset))),
                   !.confidence = "high",
                   !.flexible = TRUE,
                   !.date_range =
                     Some([start |-> startOfWeek(addWeeks(d, weekOffset)),
                           end |-> endOfWeek(addWeeks(d, weekOffset))])]

urgentResult(d, note) ==
  [NoResult EXCEPT !.date = Some(d), !.confidence = "high", !.urgent = TRUE,
                   !.note = note]

WheneverDays == 7

appointmentPatterns(d) ==
  <<
    <<Join(<<Lex.any, Lex.time, Lex.this, Lex.week>>), weekResult(d, 0)>>,
    <<Join(<<Lex.any, Lex.time, Lex.next, Lex.week>>), weekResult(d, 1)>>,
    <<Lex.whenever,
      [NoResult EXCEPT !.date = Some(d + WheneverDays), !.confidence = "medium",
                       !.flexible = TRUE,
                       !.note = "Patient is flexible - suggest next available"]>>,
    <<Join(<<Lex.as_, Lex.soon, Lex.as_, Lex.possible>>),
      urgentResult(d, "Patient needs urgent appointment")>>,
    <<Lex.asap, urgentResult(d, "Patient needs urgent appointment")>>,
    <<Join(<<Lex.next, Lex.available>>),
      urgentResult(d, "Patient wants next available slot")>>
  >>

weekPhrases ==
  Phrases(<<Join(<<Lex.any, Lex.time>>), Lex.whenever>>,
          <<Join(<<Lex.this, Lex.week>>), Join(<<Lex.next, Lex.week>>)>>)

dayPartPhrases ==
  Phrases(<<Lex.morning, Lex.afternoon, Lex.evening>>,
          <<Lex.appointment, Lex.slot, Lex.time>>)

firstPhrases ==
  Phrases(<<Lex.first, Lex.earliest>>, <<Lex.available, Lex.appointment, Lex.slot>>)

dayPartOf(match) ==
  IF Includes(match, Lex.morning) THEN "morning"
  ELSE IF Includes(match, Lex.afternoon) THEN "afternoon"
  ELSE "evening"

fallbackAppointmentParser(t, d) ==
  LET lowerText == trim(toLowerCase(t))
      table == appointmentPatterns(d)
      \* \s+ between the words of a pattern: any run of blanks
      blanksAsOne == collapseSpaces(lowerText)
      week == firstMatch(blanksAsOne, weekPhrases)
      part == firstMatch(blanksAsOne, dayPartPhrases)
      first == firstMatch(blanksAsOne, firstPhrases)
  IN IF \E i \in DOMAIN table : table[i][1] = lowerText
     THEN Some(table[CHOOSE i \in DOMAIN table : table[i][1] = lowerText][2])
     ELSE IF week # Null
          THEN Some(weekResult(d, IF Includes(week[1], Lex.next) THEN 1 ELSE 0))
     ELSE IF part # Null
          THEN Some([NoResult EXCEPT !.date = Some(d),
                                     !.time_of_day = dayPartOf(part[1]),
                                     !.confidence = "medium",
                                     !.note = "Patient prefers " \o dayPartOf(part[1])
                                              \o " appointment"])
     ELSE IF first # Null
          THEN Some(urgentResult(d, "Patient wants first available slot"))
     ELSE Null

\* partial_info as the set of its <<property, value>> pairs
partialInfo(t) ==
  LET lowerText == toLowerCase(t)
      mentioned == {i \in DOMAIN dayNames : Includes(lowerText, dayNames[i])}
  IN (IF Includes(lowerText, Lex.morning) \/ Includes(lowerText, Lex.am)
      THEN {<<"time_preference", "morning">>}
      ELSE IF Includes(lowerText, Lex.afternoon) \/ Includes(lowerText, Lex.pm)
      THEN {<<"time_preference", "afternoon">>}
      ELSE IF Includes(lowerText, Lex.evening) \/ Includes(lowerText, Lex.night)
      THEN {<<"time_preference", "evening">>}
      ELSE {})
     \cup
     (IF IncludesSome(lowerText, <<Lex.urgent, Lex.asap, Lex.emergency, Lex.soon>>)
      THEN {<<"urgency", "high">>} ELSE {})
     \cup
     (IF IncludesSome(lowerText, <<Lex.any, Lex.flexible, Lex.whenever, Lex.open>>)
      THEN {<<"flexibility", "high">>} ELSE {})
     \cup
     (IF mentioned = {} THEN {}
      ELSE {<<"mentioned_day",
              dayNames[CHOOSE i \in mentioned : \A j \in mentioned : j <= i]>>})

extractPartialTimeInfo(t) ==
  LET info == partialInfo(t)
      pref == {p[2] : p \in {q \in info : q[1] = "time_preference"}}
  IN IF info = {} THEN Null
     ELSE Some([NoResult EXCEPT
                  !.time_of_day = IF pref = {} THEN "any" ELSE CHOOSE x \in pref : TRUE,
                  !.confidence = "low",
                  !.urgent = <<"urgency", "high">> \in info,
                  !.flexible = <<"flexibility", "high">> \in info,
                  !.partial_info = Some(info)])

clarification ==
  [NoResult EXCEPT !.confidence = "none", !.needs_clarification = TRUE,
                   !.parser = "none"]

\* a mutant of parseNaturalTimeWithFallbacks: a low-confidence chrono date
\* is returned too
parseNaturalTimeWithFallbacks_anyChrono(t, d, c) ==
  LET chronoResult == parseNaturalTime(t, d, c)
      fallbackResult == fallbackAppointmentParser(t, d)
      extractedInfo == extractPartialTimeInfo(t)
  IN IF chronoResult.date # Null
     THEN [result |-> [chronoResult EXCEPT !.parser = "chrono"],
           consulted |-> <<"chrono">>]
     ELSE IF fallbackResult # Null
     THEN [result |-> [fallbackResult[1] EXCEPT !.parser = "fallback"],
           consulted |-> <<"chrono", "fallback">>]
     ELSE IF extractedInfo # Null
     THEN [result |-> [extractedInfo[1] EXCEPT !.parser = "extraction"],
           consulted |-> <<"chrono", "fallback", "extraction">>]
     ELSE [result |-> clarification,
           consulted |-> <<"chrono", "fallback", "extraction">>]

\* a mutant of parseNaturalTimeWithFallbacks: the phrase table is asked first
parseNaturalTimeWithFallbacks_tableFirst(t, d, c) ==
  LET chronoResult == parseNaturalTime(t, d, c)
      fallbackResult == fallbackAppointmentParser(t, d)
      extractedInfo == extractPartialTimeInfo(t)
  IN IF fallbackResult # Null
     THEN [result |-> [fallbackResult[1] EXCEPT !.parser = "fallback"],
           consulted |-> <<"fallback">>]
     ELSE IF chronoResult.date # Null /\ chronoResult.confidence # "low"
     THEN [result |-> [chronoResult EXCEPT !.parser = "chrono"],
           consulted |-> <<"fallback", "chrono">>]
     ELSE IF extractedInfo # Null
     THEN [result |-> [extractedInfo[1] EXCEPT !.parser = "extraction"],
           consulted |-> <<"fallback", "chrono", "extraction">>]
     ELSE [result |-> clarification,
           consulted |-> <<"fallback", "chrono", "extraction">>]

\* the result, and the strategies the call consulted, in order
parseNaturalTimeWithFallbacks(t, d, c) ==
  LET chronoResult == parseNaturalTime(t, d, c)
      fallbackResult == fallbackAppointmentParser(t, d)
      extractedInfo == extractPartialTimeInfo(t)
  IN IF chronoResult.date # Null /\ chronoResult.confidence # "low"
     THEN [result |-> [chronoResult EXCEPT !.parser = "chrono"],
           consulted |-> <<"chrono">>]
     ELSE IF fallbackResult # Null
     THEN [result |-> [fallbackResult[1] EXCEPT !.parser = "fallback"],
           consulted |-> <<"chrono", "fallback">>]
     ELSE IF extractedInfo # Null
     THEN [result |-> [extractedInfo[1] EXCEPT !.parser = "extraction"],
           consulted |-> <<"chrono", "fallback", "extraction">>]
     ELSE [result |-> clarification,
           consulted |-> <<"chrono", "fallback", "extraction">>]

------------------------------------------------------------------------------
(* The first time parser of the repository (chrono only): determineTimeOfDay *)

determineTimeOfDay_legacy(c, t) ==
  LET lowerText == toLowerCase(t) IN
  IF Includes(lowerText, Lex.morning) \/ Includes(lowerText, Lex.am) THEN "morning"
  ELSE IF \/ Includes(lowerText, Lex.afternoon)
          \/ (Includes(lowerText, Lex.pm) /\ ~Includes(lowerText, Lex.evening))
       THEN "afternoon"
  ELSE IF \/ Includes(lowerText, Lex.evening) \/ Includes(lowerText, Lex.night)
          \/ Includes(lowerText, Lex.tonight)
       THEN "evening"
  ELSE IF c.hour # Null
       THEN IF c.hour[1] >= 5 /\ c.hour[1] < 12 THEN "morning"
            ELSE IF c.hour[1] >= 12 /\ c.hour[1] < 17 THEN "afternoon"
            ELSE "evening"
  ELSE IF Includes(lowerText, Lex.breakfast) THEN "morning"
  ELSE IF Includes(lowerText, Lex.lunch) THEN "afternoon"
  ELSE IF Includes(lowerText, Lex.dinner) \/ Includes(lowerText, Lex.supper)
       THEN "evening"
  ELSE "any"

------------------------------------------------------------------------------
(* The cached time parser: the week ranges of its broad patterns *)

Max(a, b) == IF a >= b THEN a ELSE b

computeSundayWeekRange(base, isNext) ==
  LET dow == base % DaysPerWeek
      currentSunday == base - dow
      sundayStart == IF isNext THEN currentSunday + DaysPerWeek ELSE currentSunday
  IN [sundayStart |-> sundayStart, saturdayEnd |-> sundayStart + LastWeekday,
      today |-> base]

thisWeekRange(d) ==
  LET w == computeSundayWeekRange(d, FALSE) IN
  [start |-> Max(w.sundayStart, w.today), end |-> w.saturdayEnd]

nextWeekRange(d) ==
  LET w == computeSundayWeekRange(d, TRUE) IN
  [start |-> w.sundayStart, end |-> w.saturdayEnd]

TwoWeeks == 14

\* the patterns in the order of the object's keys, each with its range
broadPatterns(d) ==
  <<
    <<Join(<<Lex.anytime, Lex.this, Lex.week>>), thisWeekRange(d)>>,
    <<Join(<<Lex.anytime, Lex.in_, Lex.the, Lex.next, Lex.week>>),
      [start |-> d, end |-> d + DaysPerWeek]>>,
    <<Join(<<Lex.anytime, Lex.next, Lex.week>>), nextWeekRange(d)>>,
    <<Join(<<Lex.this, Lex.week>>), thisWeekRange(d)>>,
    <<Join(<<Lex.next, Lex.week>>), nextWeekRange(d)>>,
    <<Lex.anytime, [start |-> d, end |-> d + TwoWeeks]>>,
    <<Join(<<Lex.next, Lex.available>>), [start |-> d, end |-> d + TwoWeeks]>>
  >>

\* the loop over broadPatterns: the range of the first pattern the input
\* includes, or Null
broadRange(normalizedInput, d) ==
  LET table == broadPatterns(d)
      hits == {i \in DOMAIN table : Includes(normalizedInput, table[i][1])}
  IN IF hits = {} THEN Null
     ELSE Some(table[CHOOSE i \in hits : \A j \in hits : i <= j][2])

------------------------------------------------------------------------------
(* The time parser with Gemini correction: its parsers *)

determineTimeOfDay_gemini(c, t) ==
  LET lowerText == toLowerCase(t) IN
  IF Includes(lowerText, Lex.morning) \/ Includes(lowerText, Lex.am) THEN "morning"
  ELSE IF \/ Includes(lowerText, Lex.afternoon)
          \/ (Includes(lowerText, Lex.pm) /\ ~Includes(lowerText, Lex.evening))
       THEN "afternoon"
  ELSE IF Includes(lowerText, Lex.evening) \/ Includes(lowerText, Lex.night)
       THEN "evening"
  ELSE IF c.hour # Null /\ c.hour[1] >= 5 /\ c.hour[1] < 12 THEN "morning"
  ELSE IF c.hour # Null /\ c.hour[1] >= 12 /\ c.hour[1] < 17 THEN "afternoon"
  ELSE IF c.hour # Null /\ c.hour[1] >= 17 /\ c.hour[1] < 24 THEN "evening"
  ELSE "any"

determineConfidence_gemini(c, t) ==
  IF c.ymd THEN "high"
  ELSE IF IncludesSome(toLowerCase(t),
                       <<Lex.today, Lex.tomorrow, Lex.yesterday>> \o dayNames)
       THEN "high"
  ELSE "medium"

\* null when chrono finds nothing or throws
parseWithChrono(t, d, c) ==
  IF c.kind # "ok" THEN Null
  ELSE Some([NoResult EXCEPT !.date = Some(d + c.offset),
                             !.time_of_day = determineTimeOfDay_gemini(c, t),
                             !.confidence = determineConfidence_gemini(c, t)])

appointmentPatterns_gemini(d) ==
  <<
    <<Join(<<Lex.any, Lex.time, Lex.this, Lex.week>>), weekResult(d, 0)>>,
    <<Join(<<Lex.anytime, Lex.this, Lex.week>>), weekResult(d, 0)>>,
    <<Join(<<Lex.any, Lex.time, Lex.next, Lex.week>>), weekResult(d, 1)>>,
    <<Lex.whenever,
      [NoResult EXCEPT !.date = Some(d + WheneverDays), !.confidence = "medium",
                       !.flexible = TRUE,
                       !.note = "Patient is flexible - suggest next available"]>>,
    <<Join(<<Lex.as_, Lex.soon, Lex.as_, Lex.possible>>),
      urgentResult(d, "Patient needs urgent appointment")>>,
    <<Lex.asap, urgentResult(d, "Patient needs urgent appointment")>>
  >>

\* (any ?time|whenever)\s+(this|next)\s+week
weekPhrases_gemini ==
  Phrases(<<Join(<<Lex.any, Lex.time>>), Lex.anytime, Lex.whenever>>,
          <<Join(<<Lex.this, Lex.week>>), Join(<<Lex.next, Lex.week>>)>>)

\* \b(morning|afternoon|evening)\s+(appointment|slot|time)?\b: the word, blanks,
\* and then the start of any word; the day part of the leftmost match, or Null
dayPartMatch_gemini(t) ==
  LET parts == <<Lex.morning, Lex.afternoon, Lex.evening>>
      at(i) == {k \in DOMAIN parts :
                  /\ At(t, i, parts[k])
                  /\ (i = 1 \/ ~IsWordChar(t[i - 1]))
                  /\ i + Len(parts[k]) + 1 <= Len(t)
                  /\ t[i + Len(parts[k])] = " "
                  /\ IsWordChar(t[i + Len(parts[k]) + 1])}
      hits == {i \in 1..Len(t) : at(i) # {}}
  IN IF hits = {} THEN Null
     ELSE Some(parts[CHOOSE k \in at(CHOOSE i \in hits : \A j \in hits : i <= j) :
                       TRUE])

fallbackAppointmentParser_gemini(t, d) ==
  LET lowerText == trim(toLowerCase(t))
      table == appointmentPatterns_gemini(d)
      blanksAsOne == collapseSpaces(lowerText)
      week == firstMatch(blanksAsOne, weekPhrases_gemini)
      part == dayPartMatch_gemini(blanksAsOne)
  IN IF \E i \in DOMAIN table : table[i][1] = lowerText
     THEN Some(table[CHOOSE i \in DOMAIN table : table[i][1] = lowerText][2])
     ELSE IF week # Null
          THEN Some(weekResult(d, IF Includes(week[1], Lex.next) THEN 1 ELSE 0))
     ELSE IF part # Null
          THEN Some([NoResult EXCEPT !.date = Some(d),
                                     !.time_of_day = dayPartOf(part[1]),
                                     !.confidence = "medium",
                                     !.note = "Patient prefers " \o dayPartOf(part[1])
                                              \o " appointment"])
     ELSE Null

parseNaturalTimeWithFallbacks_gemini(t, d, c) ==
  LET chronoResult == parseWithChrono(t, d, c)
      fallbackResult == fallbackAppointmentParser_gemini(t, d)
  IN IF chronoResult # Null
     THEN [result |-> [chronoResult[1] EXCEPT !.parser = "chrono"],
           consulted |-> <<"chrono">>]
     ELSE IF fallbackResult # Null
     THEN [result |-> [fallbackResult[1] EXCEPT !.parser = "fallback"],
           consulted |-> <<"chrono", "fallback">>]
     ELSE [result |-> clarification, consulted |-> <<"chrono", "fallback">>]

------------------------------------------------------------------------------
(* The time parser's functions applied to bounded inputs *)

\* the pieces texts are made of
Vocabulary ==
  <<Join(<<Lex.any, Lex.time>>), Lex.whenever,
    Join(<<Lex.this, Lex.week>>), Join(<<Lex.next, Lex.week>>),
    Lex.evening, Lex.pm, Lex.slot, Lex.monday, Lex.january, Lex.lunch,
    Lex.exam, Lex.xyz>>

MaxPieces == 2

\* the texts of at most MaxPieces pieces
RECURSIVE TextsOf(_)
TextsOf(n) ==
  IF n = 0 THEN {<<>>}
  ELSE LET shorter == TextsOf(n - 1) IN
       shorter \cup {Join(<<t, Vocabulary[i]>>) : t \in shorter \ {<<>>},
                                                  i \in DOMAIN Vocabulary}
               \cup {Vocabulary[i] : i \in DOMAIN Vocabulary}

Texts == TextsOf(MaxPieces)

NumDays == 7
Days == 0..(NumDays - 1)

NoChrono == [kind |-> "none", offset |-> 0, ymd |-> FALSE, hour |-> Null]

HandlerIdle ==
  /\ variant = "" /\ secret = FALSE /\ req = Null /\ pc = "" /\ res = Null
  /\ calls = <<>>

\* the date-of-birth service takes no part
DobIdle ==
  server = Null /\ cache = <<>> /\ dobReq = Null /\ dobRes = Null /\ served = 0
  /\ tried = <<>> /\ resent = <<>>

\* no text is being converted
WordsIdle == phrase = <<>> /\ numerals = <<>>

\* the cached time parser takes no part
PatternIdle ==
  clock = 0 /\ patterns = <<>> /\ parseReq = <<>> /\ parseRes = <<>>

\* executeWithRetry is not running
RetryIdle ==
  attempt = 0 /\ retryPc = "" /\ lastError = <<>> /\ rejections = <<>> /\ waited = <<>> /\ invoked = 0 /\ settled = <<>>

\* the availability service takes no part
AvailIdle ==
  avCache = <<>> /\ avReq = <<>> /\ avPc = "" /\ avState = <<>> /\ avRes = <<>>

\* the mock availability service takes no part
MockIdle ==
  mockReq = <<>> /\ mockRes = <<>>

\* no text is being separated
SepIdle ==
  spoken = <<>> /\ separated = <<>> /\ reseparated = <<>>

\* the email cleaner takes no part
EmailIdle ==
  emailReq = <<>> /\ analysis = <<>> /\ emailRes = <<>>

\* the later services take no part
RestIdle == PatternIdle /\ RetryIdle /\ AvailIdle /\ MockIdle /\ SepIdle /\ EmailIdle

\* the slot matcher takes no part
SlotsIdle ==
  WEBHOOK_SECRET = "" /\ SKIP_SIGNATURE = FALSE /\ firestore = <<>> /\ slotReq = <<>> /\ pending = <<>> /\ queries = <<>>
  /\ allSlots = <<>> /\ slotRes = <<>>

\* only the cached time parser and the time parser's variables take part
OnlyPattern ==
  DobIdle /\ WordsIdle /\ SlotsIdle /\ RetryIdle /\ AvailIdle /\ MockIdle /\ SepIdle /\ EmailIdle

\* only executeWithRetry takes part
OnlyRetry ==
  DobIdle /\ WordsIdle /\ SlotsIdle /\ PatternIdle /\ AvailIdle /\ MockIdle /\ SepIdle /\ EmailIdle

\* only the availability service takes part
OnlyAvail ==
  DobIdle /\ WordsIdle /\ SlotsIdle /\ PatternIdle /\ RetryIdle /\ MockIdle /\ SepIdle /\ EmailIdle

\* only the mock availability service takes part
OnlyMock ==
  DobIdle /\ WordsIdle /\ SlotsIdle /\ PatternIdle /\ RetryIdle /\ AvailIdle /\ SepIdle /\ EmailIdle

\* only the word separation takes part
OnlySep ==
  DobIdle /\ WordsIdle /\ SlotsIdle /\ PatternIdle /\ RetryIdle /\ AvailIdle /\ MockIdle /\ EmailIdle

\* only the email cleaner takes part
OnlyEmail ==
  DobIdle /\ WordsIdle /\ SlotsIdle /\ PatternIdle /\ RetryIdle /\ AvailIdle /\ MockIdle /\ SepIdle

InitParse ==
  /\ text \in Texts
  /\ today \in Days
  /\ chrono = NoChrono
  /\ parsed = Null
  /\ consulted = <<>>
  /\ tod = ""
  /\ range = Null
  /\ fn = "input"
  /\ HandlerIdle
  /\ DobIdle
  /\ WordsIdle
  /\ SlotsIdle
  /\ RestIdle

\* parseNaturalTimeWithFallbacks(text, timezone), chrono answering c
ApplyParseNaturalTimeWithFallbacks ==
  /\ fn = "input"
  /\ \E c \in ChronoOutcomes :
       LET r == parseNaturalTimeWithFallbacks(text, today, c) IN
       /\ chrono' = c
       /\ parsed' = Some(r.result)
       /\ consulted' = r.consulted
  /\ fn' = "parseNaturalTimeWithFallbacks"
  /\ UNCHANGED notTimeVars
  /\ UNCHANGED <<text, today, tod, range, variant, secret, req, pc, res, calls>>

\* determineTimeOfDay(result, text) of services/time-parser on a chrono result
ApplyDetermineTimeOfDay ==
  /\ fn = "input"
  /\ \E c \in {o \in ChronoOutcomes : o.kind = "ok"} :
       /\ chrono' = c
       /\ tod' = determineTimeOfDay(c, text)
  /\ fn' = "determineTimeOfDay"
  /\ UNCHANGED notTimeVars
  /\ UNCHANGED <<text, today, parsed, consulted, range, variant, secret, req, pc, res, calls>>

\* determineTimeOfDay(result, text) of the chrono-only parser
ApplyDetermineTimeOfDayLegacy ==
  /\ fn = "input"
  /\ \E c \in {o \in ChronoOutcomes : o.kind = "ok"} :
       /\ chrono' = c
       /\ tod' = determineTimeOfDay_legacy(c, text)
  /\ fn' = "determineTimeOfDay_legacy"
  /\ UNCHANGED notTimeVars
  /\ UNCHANGED <<text, today, parsed, consulted, range, variant, secret, req, pc, res, calls>>

\* the broad patterns of the cached parser on the text
ApplyBroadRange ==
  /\ fn = "input"
  /\ range' = broadRange(text, today)
  /\ fn' = "broadRange"
  /\ UNCHANGED notTimeVars
  /\ UNCHANGED <<text, today, chrono, parsed, consulted, tod, variant, secret,
                 req, pc, res, calls>>

NextParse ==
  \/ ApplyParseNaturalTimeWithFallbacks
  \/ ApplyDetermineTimeOfDay
  \/ ApplyDetermineTimeOfDayLegacy
  \/ ApplyBroadRange

SpecParse == InitParse /\ [][NextParse]_vars

------------------------------------------------------------------------------
(* POST /api/enhanced-parse-natural-time: the handler of the NLP service and  *)
(* of the Gemini service.  A handler runs up to its await of the external     *)
(* text correction in one step and from the correction's return to the        *)
(* response in another.                                                       *)

AnyTimeThisWeekGlued == Lex.any \o Lex.time \o Lex.this \o Lex.week

\* the texts of requests and of corrections
HandlerTexts ==
  {AnyTimeThisWeekGlued, Join(<<Lex.any, Lex.time, Lex.next, Lex.week>>),
   Lex.xyz, <<"x">>}

\* values of data.datetime_request: absent, a number, a string
DatetimeRequests ==
  {[type |-> "undefined", text |-> <<>>], [type |-> "number", text |-> <<>>]}
  \cup {[type |-> "string", text |-> t] : t \in HandlerTexts \cup {<<>>}}

Requests ==
  [data : BOOLEAN, datetime_request : DatetimeRequests,
   timezone : {"undefined", "valid", "invalid"},
   signature : {"absent", "valid", "forged"}]

NoRequest ==
  [data |-> FALSE, datetime_request |-> [type |-> "undefined", text |-> <<>>],
   timezone |-> "undefined", signature |-> "absent"]

\* !value is false: a number other than 0, a string other than ''
Truthy(v) == v.type = "number" \/ (v.type = "string" /\ v.text # <<>>)

\* moment.tz.zone(timezone || 'America/New_York') is not null
ZoneKnown(r) == r.timezone # "invalid"

Response(status, success, message, result, detail) ==
  Some([status |-> status, success |-> success, message |-> message,
        parsed |-> result, error_detail |-> detail])

verifyWebhookSignature(r) ==
  IF r.signature = "absent" \/ ~secret THEN TRUE
  ELSE r.signature = "valid"

\* a mutant of validate: the timezone is not looked at
validate_anyTimezone(v, r) ==
  IF v = "gemini" /\ ~verifyWebhookSignature(r) THEN "signature"
  ELSE IF v = "nlp" /\ ~r.data THEN "missing"
  ELSE IF ~r.data \/ ~Truthy(r.datetime_request) THEN "missing"
  ELSE "ok"

\* the checks before the correction, in the handler's order
validate(v, r) ==
  IF v = "gemini" /\ ~verifyWebhookSignature(r) THEN "signature"
  ELSE IF v = "nlp" /\ ~r.data THEN "missing"
  ELSE IF ~r.data \/ ~Truthy(r.datetime_request) THEN "missing"
  ELSE IF ~ZoneKnown(r) THEN "timezone"
  ELSE "ok"

rejection(v, verdict) ==
  IF verdict = "signature"
  THEN Response(401, FALSE, "Invalid webhook signature", Null, FALSE)
  ELSE IF verdict = "missing"
  THEN Response(400, FALSE,
                IF v = "nlp" THEN "Missing required field: data.datetime_request"
                ELSE "Missing required field: datetime_request", Null, FALSE)
  ELSE Response(400, FALSE, "Invalid timezone", Null, FALSE)

\* intelligentSpeechCorrection returns at once, without the Gemini call
TooShortToCorrect(v) == v.type = "string" /\ Len(v.text) < 2

\* a mutant of errorResponse: the generic 500 answer
errorResponse_generic500(v) ==
  Response(500, FALSE, "Internal server error", Null, FALSE)

\* the response of the handler's catch block: status 200, the exception's
\* message in error_details (NLP) or error (Gemini)
errorResponse(v) ==
  IF v = "nlp"
  THEN Response(200, FALSE, "Could not process appointment request", Null, TRUE)
  ELSE Response(200, FALSE, "Error processing date/time request",
                Some([NoResult EXCEPT !.confidence = "low"]), TRUE)

\* the response of the NLP handler for a parse result
respond_nlp(r) ==
  IF r.needs_clarification
  THEN Response(200, FALSE, "Need clarification for appointment scheduling",
                Some(r), FALSE)
  ELSE IF r.date # Null
  THEN Response(200, TRUE, "Successfully parsed appointment request", Some(r), FALSE)
  ELSE Response(200, FALSE, "Partially understood appointment request",
                Some(r), FALSE)

\* the response of the Gemini handler for a parse result
respond_gemini(r) ==
  IF r.date # Null
  THEN Response(200, TRUE, "Successfully parsed date/time",
                Some([NoResult EXCEPT !.date = r.date,
                                      !.time_of_day = r.time_of_day,
                                      !.confidence = r.confidence,
                                      !.flexible = r.flexible,
                                      !.urgent = r.urgent,
                                      !.date_range = r.date_range]), FALSE)
  ELSE Response(200, FALSE, "Could not parse the date/time from the input",
                Some([NoResult EXCEPT !.confidence = "low"]), FALSE)

\* GCP_WEBHOOK_SECRET is read by the Gemini service only
InitTime ==
  /\ variant \in {"nlp", "gemini"}
  /\ secret \in (IF variant = "gemini" THEN BOOLEAN ELSE {FALSE})
  /\ today \in Days
  /\ req = NoRequest
  /\ pc = "idle"
  /\ res = Null
  /\ calls = <<>>
  /\ text = <<>>
  /\ chrono = NoChrono
  /\ parsed = Null
  /\ consulted = <<>>
  /\ tod = ""
  /\ range = Null
  /\ fn = ""
  /\ DobIdle
  /\ WordsIdle
  /\ SlotsIdle
  /\ RestIdle

Receive ==
  /\ pc = "idle"
  /\ req' \in Requests
  /\ pc' = "received"
  /\ UNCHANGED notTimeVars
  /\ UNCHANGED <<text, today, chrono, parsed, consulted, tod, range, fn, variant,
                 secret, res, calls>>

\* from the start of the handler to the await of the correction
HandleRequest ==
  /\ pc = "received"
  /\ LET verdict == validate(variant, req) IN
     IF verdict # "ok"
     THEN /\ res' = rejection(variant, verdict)
          /\ pc' = "done"
          /\ calls' = calls
     ELSE /\ res' = res
          /\ pc' = "awaiting"
          /\ calls' = IF variant = "nlp"
                       THEN Append(calls, "languageClient.analyzeSyntax")
                       ELSE IF TooShortToCorrect(req.datetime_request) THEN calls
                       ELSE Append(calls, "geminiModel.generateContent")
  /\ UNCHANGED notTimeVars
  /\ UNCHANGED <<text, today, chrono, parsed, consulted, tod, range, fn, variant,
                 secret, req>>

\* what the correction can return: the text it was given when the service
\* fails (or was not called), any text when it answers
Corrections(v) ==
  IF v.type # "string" \/ (variant = "gemini" /\ TooShortToCorrect(v)) THEN {v}
  ELSE {v} \cup {[type |-> "string", text |-> t] : t \in HandlerTexts}

\* the NLP handler from the correction's return to the response
Resume_nlp ==
  /\ pc = "awaiting"
  /\ variant = "nlp"
  /\ \E corrected \in Corrections(req.datetime_request) :
       LET cleaned == IF corrected.type = "string"
                      THEN preprocessNaturalTime(corrected.text) ELSE <<>>
       IN /\ text' = cleaned
          /\ \E c \in ChronoOutcomes :
               LET r == parseNaturalTimeWithFallbacks(text', today, c) IN
               /\ chrono' = c
               /\ parsed' = Some(r.result)
               /\ consulted' = r.consulted
               /\ res' = respond_nlp(r.result)
  /\ calls' = calls \o <<"preprocessNaturalTime", "parseNaturalTimeWithFallbacks">>
  /\ pc' = "done"
  /\ UNCHANGED notTimeVars
  /\ UNCHANGED <<today, tod, range, fn, variant, secret, req>>

\* the Gemini handler from the correction's return to the response; a value
\* that is no string makes text.toLowerCase() throw in the phrase table
Resume_gemini ==
  /\ pc = "awaiting"
  /\ variant = "gemini"
  /\ \E corrected \in Corrections(req.datetime_request), c \in ChronoOutcomes :
       IF corrected.type # "string"
       THEN /\ res' = errorResponse(variant)
            /\ calls' = calls \o <<"parseNaturalTimeWithFallbacks", "catch">>
            /\ UNCHANGED <<text, chrono, parsed, consulted>>
       ELSE LET r == parseNaturalTimeWithFallbacks_gemini(corrected.text, today, c)
            IN /\ text' = corrected.text
               /\ chrono' = c
               /\ parsed' = Some(r.result)
               /\ consulted' = r.consulted
               /\ res' = respond_gemini(r.result)
               /\ calls' = Append(calls, "parseNaturalTimeWithFallbacks")
  /\ pc' = "done"
  /\ UNCHANGED notTimeVars
  /\ UNCHANGED <<today, tod, range, fn, variant, secret, req>>

\* an exception escapes a step after the correction: the catch block answers
HandlerThrows ==
  /\ pc = "awaiting"
  /\ res' = errorResponse(variant)
  /\ calls' = Append(calls, "catch")
  /\ pc' = "done"
  /\ UNCHANGED notTimeVars
  /\ UNCHANGED <<text, today, chrono, parsed, consulted, tod, range, fn, variant,
                 secret, req>>

NextTime ==
  \/ Receive
  \/ HandleRequest
  \/ Resume_nlp
  \/ Resume_gemini
  \/ HandlerThrows

SpecTime == InitTime /\ [][NextTime]_vars

------------------------------------------------------------------------------
(* Properties of the multi-strategy parser *)

Returned == fn = "parseNaturalTimeWithFallbacks"
Result == parsed[1]

\* C1 as stated: the returned result has a null date if and only if its
\* confidence is 'none'
C1_DateNullIffNone ==
  Returned => (Result.date = Null <=> Result.confidence = "none")

\* C1: the returned result has a null date if and only if its confidence is
\* 'low' (partial information only) or 'none' (clarification needed)
C1_DateNullIffLowOrNone ==
  Returned => (Result.date = Null <=> Result.confidence \in {"low", "none"})

\* C1 witness: the extraction strategy answered, no date and confidence 'low'
C1_Witness ==
  /\ Returned
  /\ Result.parser = "extraction"
  /\ Result.date = Null
  /\ Result.confidence = "low"

IsPrefix(p, q) == Len(p) <= Len(q) /\ SubSeq(q, 1, Len(p)) = p

\* what the chrono strategy answered for the call
ChronoAnswer == parseNaturalTime(text, today, chrono)
ChronoConfident == ChronoAnswer.date # Null /\ ChronoAnswer.confidence # "low"

\* C2 as stated: the strategies are consulted in the order strict format,
\* natural-language parser, phrase table, extraction, and the first confident
\* one answers
C2_StrictFirstOrder ==
  Returned =>
    /\ consulted # <<>>
    /\ IsPrefix(consulted, <<"strict", "chrono", "fallback", "extraction">>)
    /\ (ChronoConfident => Result.parser = "chrono")

\* C2: the strategies are consulted in the order natural-language parser,
\* phrase table, extraction (there is no strict-format strategy); a later one
\* is consulted only when every earlier one gave no confident date, and when
\* the natural-language parser gave a date with confidence other than low its
\* result is the one returned
C2_ChronoFirstOrder ==
  Returned =>
    /\ consulted # <<>>
    /\ IsPrefix(consulted, <<"chrono", "fallback", "extraction">>)
    /\ (ChronoConfident <=> consulted = <<"chrono">>)
    /\ (ChronoConfident => Result = [ChronoAnswer EXCEPT !.parser = "chrono"])
    /\ (Len(consulted) = 3 => fallbackAppointmentParser(text, today) = Null)
    /\ Result.parser \in {consulted[Len(consulted)], "none"}
    /\ (Result.parser = "none" => Len(consulted) = 3)

\* C2 witness: the natural-language parser gave a date of low confidence, the
\* phrase table was consulted next and its result returned
C2_Witness ==
  /\ Returned
  /\ ChronoAnswer.date # Null
  /\ ChronoAnswer.confidence = "low"
  /\ consulted = <<"chrono", "fallback">>
  /\ Result.parser = "fallback"

\* the signal words of the partial-information extraction
SignalWords ==
  <<Lex.morning, Lex.am, Lex.afternoon, Lex.pm, Lex.evening, Lex.night,
    Lex.urgent, Lex.asap, Lex.emergency, Lex.soon,
    Lex.any, Lex.flexible, Lex.whenever, Lex.open>> \o dayNames

\* the text contains a signal as a word of its own
HasStandaloneSignal(t) ==
  \E i \in DOMAIN SignalWords : PhraseAt(toLowerCase(t), SignalWords[i]) # {}

\* C3 as stated: on the path without a date, a text with a standalone signal
\* word gets confidence 'low' with the partial data and no date, a text with
\* none gets confidence 'none' and the clarification marker
C3_NoDatePath ==
  (Returned /\ Result.parser \in {"extraction", "none"}) =>
    IF HasStandaloneSignal(text)
    THEN /\ Result.confidence = "low"
         /\ Result.date = Null
         /\ Result.partial_info # Null
         /\ ~Result.needs_clarification
    ELSE /\ Result.confidence = "none"
         /\ Result.date = Null
         /\ Result.needs_clarification

\* C4 as stated: a returned date is at most two years (731 days) after and at
\* most one year (366 days) before the current day
C4_DateWithinWindow ==
  (Returned /\ Result.date # Null) =>
    /\ Result.date[1] <= today + 731
    /\ Result.date[1] >= today - 366

AnyTimeThisWeek == Join(<<Lex.any, Lex.time, Lex.this, Lex.week>>)
AnyTimeNextWeek == Join(<<Lex.any, Lex.time, Lex.next, Lex.week>>)

\* the Saturday that ends the Sunday-to-Saturday week of day d
SaturdayOf(d) == CHOOSE e \in d..(d + 6) : e % 7 = 6

\* C5 as stated: by the phrase table, 'any time this week' ranges from no
\* earlier than today to the Saturday of the current week, and 'any time next
\* week' from the Sunday to the Saturday of the following week
C5_WeekRanges ==
  (Returned /\ Result.parser = "fallback") =>
    /\ text = AnyTimeThisWeek =>
         /\ Result.date_range # Null
         /\ Result.date_range[1].end = SaturdayOf(today)
         /\ Result.date_range[1].start >= today
         /\ Result.date_range[1].start <= Result.date_range[1].end
    /\ text = AnyTimeNextWeek =>
         /\ Result.date_range # Null
         /\ Result.date_range[1].end = SaturdayOf(today) + 7
         /\ Result.date_range[1].start = SaturdayOf(today) + 1

\* the time of day the specification derives from the markers and the hour
MarkedTimeOfDay(t, hour) ==
  LET lowerText == toLowerCase(t) IN
  IF Includes(lowerText, Lex.morning) \/ Includes(lowerText, Lex.am) THEN "morning"
  ELSE IF \/ Includes(lowerText, Lex.afternoon)
          \/ (Includes(lowerText, Lex.pm) /\ ~Includes(lowerText, Lex.evening))
       THEN "afternoon"
  ELSE IF \/ Includes(lowerText, Lex.evening) \/ Includes(lowerText, Lex.night)
          \/ Includes(lowerText, Lex.tonight)
       THEN "evening"
  ELSE IF hour = Null THEN "any"
  ELSE IF 5 <= hour[1] /\ hour[1] < 12 THEN "morning"
  ELSE IF 12 <= hour[1] /\ hour[1] < 17 THEN "afternoon"
  ELSE IF 17 <= hour[1] /\ hour[1] < 24 THEN "evening"
  ELSE "any"

\* C6 as stated: a marker in the text decides the time of day first, then the
\* parsed hour by its band, and without a marker and with no hour or an hour
\* in 0..4 the time of day is 'any'
C6_TimeOfDay ==
  fn \in {"determineTimeOfDay", "determineTimeOfDay_legacy"} =>
    tod = MarkedTimeOfDay(text, chrono.hour)

------------------------------------------------------------------------------
(* Properties of the time parser's handler *)

\* the request lacks data.datetime_request or names an unknown timezone
InvalidRequest ==
  \/ ~req.data
  \/ req.datetime_request.type = "undefined"
  \/ req.timezone = "invalid"

Handled == pc \in {"awaiting", "done"}

Caught == \E i \in DOMAIN calls : calls[i] = "catch"

\* C8 as stated: an exception in the handler is answered with a generic 500
\* that carries no detail of the exception, never with a 2xx status
C8_Generic500 ==
  Caught =>
    /\ res # Null
    /\ res[1].status = 500
    /\ ~res[1].error_detail

\* C8: an exception in the handler is caught and answered with status 200,
\* success false and the exception's message in the body; no date is reported
C8_Caught200WithMessage ==
  /\ pc = "done" => res # Null
  /\ Caught =>
       /\ pc = "done"
       /\ res[1].status = 200
       /\ ~res[1].success
       /\ res[1].error_detail
       /\ (res[1].parsed # Null => res[1].parsed[1].date = Null)

\* C8 witness: the Gemini handler was given a number as datetime_request, the
\* phrase table threw, and the catch block answered
C8_Witness ==
  /\ Caught
  /\ variant = "gemini"
  /\ req.datetime_request.type = "number"
  /\ calls = <<"geminiModel.generateContent", "parseNaturalTimeWithFallbacks",
               "catch">>
  /\ res[1].status = 200

------------------------------------------------------------------------------
(* Date-of-birth normaliser: calendar dates and moment's strict parsing.     *)
(* A calendar date is [year, month, day] with month 1..12; a date string is  *)
(* a text, parsed and formatted character by character.                      *)

isLeapYear(y) == (y % 4 = 0 /\ y % 100 # 0) \/ y % 400 = 0

daysInMonth(y, m) ==
  IF m = 2 THEN (IF isLeapYear(y) THEN 29 ELSE 28)
  ELSE IF m \in {4, 6, 9, 11} THEN 30 ELSE 31

Ymd(y, m, d) == [year |-> y, month |-> m, day |-> d]

\* the least of a set of indices, or 0
least(hits) == IF hits = {} THEN 0 ELSE CHOOSE i \in hits : \A j \in hits : i <= j

\* a < b as calendar dates
isBefore(a, b) ==
  \/ a.year < b.year
  \/ a.year = b.year /\ a.month < b.month
  \/ a.year = b.year /\ a.month = b.month /\ a.day < b.day

\* parseInt of a run of digits
RECURSIVE ToNat(_)
ToNat(ds) ==
  IF ds = <<>> THEN 0
  ELSE 10 * ToNat(SubSeq(ds, 1, Len(ds) - 1))
       + (CHOOSE i \in 0..9 : DigitChars[i + 1] = ds[Len(ds)])

AllDigits(t) == \A i \in 1..Len(t) : IsDigit(t[i])

\* zero-padded number, as format('MM') or String.padStart(w, '0') give it
RECURSIVE padStart(_, _)
padStart(t, w) == IF Len(t) >= w THEN t ELSE padStart(<<"0">> \o t, w)

\* the locale's month names: moment.months()
months ==
  <<<<"j","a","n","u","a","r","y">>,
    <<"f","e","b","r","u","a","r","y">>,
    <<"m","a","r","c","h">>,
    <<"a","p","r","i","l">>,
    <<"m","a","y">>,
    <<"j","u","n","e">>,
    <<"j","u","l","y">>,
    <<"a","u","g","u","s","t">>,
    <<"s","e","p","t","e","m","b","e","r">>,
    <<"o","c","t","o","b","e","r">>,
    <<"n","o","v","e","m","b","e","r">>,
    <<"d","e","c","e","m","b","e","r">>>>

\* moment.monthsShort(): the first three letters
monthsShort == [i \in 1..12 |-> SubSeq(months[i], 1, 3)]

\* moment's parseTwoDigitYear
parseTwoDigitYear(n) == n + (IF n > 68 THEN 1900 ELSE 2000)

\* the digits a strict token of width 1 to 2 takes from the head of s: builds
\* of moment before 2.30 take /\d\d?/, later builds /^[1-9]\d?/, so zeroOk is
\* a property of the installed build
match1to2(s, zeroOk) ==
  IF s = <<>> \/ ~IsDigit(s[1]) \/ (~zeroOk /\ s[1] = "0") THEN 0
  ELSE IF Len(s) >= 2 /\ IsDigit(s[2]) THEN 2 ELSE 1

\* the digits a strict token of exactly w digits takes: w, or 0 for no match
matchExact(s, w) == IF Len(s) >= w /\ AllDigits(SubSeq(s, 1, w)) THEN w ELSE 0

\* the lower-case word w stands at position j of t, letter case ignored (the
\* i flag of the patterns)
matchesAt(t, j, w) ==
  /\ j + Len(w) - 1 <= Len(t)
  /\ \A k \in 1..Len(w) : LowerChar(t[j + k - 1]) = w[k]

\* index of the name that s starts with, letter case ignored, or 0
monthsParse(s, names) ==
  LET hits == {i \in 1..12 : matchesAt(s, 1, names[i])}
  IN IF hits = {} THEN 0
     ELSE CHOOSE i \in hits : \A j \in hits : Len(names[i]) >= Len(names[j])

\* configFromStringAndFormat in strict mode: every token of the format takes
\* its text from the head of the input; a token that finds none, text that is
\* skipped and text left over all make the result invalid (Null)
nameWidth(k, names) == IF k = 0 THEN 0 ELSE Len(names[k])

\* the number of characters the token takes from the head of s, or 0
tokenWidth(s, tk, zeroOk) ==
  IF tk = "YYYY" THEN matchExact(s, 4)
  ELSE IF tk \in {"YY", "MM", "DD"} THEN matchExact(s, 2)
  ELSE IF tk \in {"M", "D"} THEN match1to2(s, zeroOk)
  ELSE IF tk = "MMMM" THEN nameWidth(monthsParse(s, months), months)
  ELSE IF tk = "MMM" THEN nameWidth(monthsParse(s, monthsShort), monthsShort)
  ELSE IF s # <<>> /\ s[1] = tk THEN 1 ELSE 0

\* the date with the field set that the token reads from the first n
\* characters of s
setField(acc, tk, s, n) ==
  IF tk = "YYYY" THEN [acc EXCEPT !.year = ToNat(SubSeq(s, 1, n))]
  ELSE IF tk = "YY"
    THEN [acc EXCEPT !.year = parseTwoDigitYear(ToNat(SubSeq(s, 1, n)))]
  ELSE IF tk \in {"MM", "M"} THEN [acc EXCEPT !.month = ToNat(SubSeq(s, 1, n))]
  ELSE IF tk \in {"DD", "D"} THEN [acc EXCEPT !.day = ToNat(SubSeq(s, 1, n))]
  ELSE IF tk = "MMMM" THEN [acc EXCEPT !.month = monthsParse(s, months)]
  ELSE IF tk = "MMM" THEN [acc EXCEPT !.month = monthsParse(s, monthsShort)]
  ELSE acc

RECURSIVE parseTokens(_, _, _, _)
takeToken(s, tokens, acc, zeroOk, n) ==
  IF n = 0 THEN Null
  ELSE parseTokens(SubSeq(s, n + 1, Len(s)), Tail(tokens),
                   setField(acc, Head(tokens), s, n), zeroOk)

parseTokens(s, tokens, acc, zeroOk) ==
  IF tokens = <<>> THEN (IF s = <<>> THEN Some(acc) ELSE Null)
  ELSE takeToken(s, tokens, acc, zeroOk, tokenWidth(s, Head(tokens), zeroOk))

\* the overflow check of moment's isValid
validDate(d) ==
  /\ d.month \in 1..12
  /\ d.day \in 1..daysInMonth(d.year, d.month)

\* the parsed date when isValid() holds of it, or Null
validOrNull(got) == IF got # Null /\ validDate(got[1]) THEN got ELSE Null

\* moment(input, format, true): the date, or Null when !isValid()
moment(s, tokens, zeroOk) ==
  validOrNull(parseTokens(s, tokens, Ymd(0, 0, 0), zeroOk))

IsoTokens == <<"YYYY", "-", "MM", "-", "DD">>

\* m.format('YYYY-MM-DD')
formatIso(d) ==
  padStart(NatToText(d.year), 4) \o <<"-">> \o padStart(NatToText(d.month), 2)
    \o <<"-">> \o padStart(NatToText(d.day), 2)

\* validateDateComponents(m)
validateDateComponents(d) ==
  /\ d.month >= 1 /\ d.month <= 12
  /\ d.day >= 1 /\ d.day <= daysInMonth(d.year, d.month)

formats ==
  <<
   [name |-> "YYYY-MM-DD", tokens |-> <<"YYYY", "-", "MM", "-", "DD">>],
   [name |-> "YYYY/MM/DD", tokens |-> <<"YYYY", "/", "MM", "/", "DD">>],
   [name |-> "YYYY.MM.DD", tokens |-> <<"YYYY", ".", "MM", ".", "DD">>],
   [name |-> "MM/DD/YYYY", tokens |-> <<"MM", "/", "DD", "/", "YYYY">>],
   [name |-> "MM-DD-YYYY", tokens |-> <<"MM", "-", "DD", "-", "YYYY">>],
   [name |-> "MM.DD.YYYY", tokens |-> <<"MM", ".", "DD", ".", "YYYY">>],
   [name |-> "M/D/YYYY", tokens |-> <<"M", "/", "D", "/", "YYYY">>],
   [name |-> "M-D-YYYY", tokens |-> <<"M", "-", "D", "-", "YYYY">>],
   [name |-> "M.D.YYYY", tokens |-> <<"M", ".", "D", ".", "YYYY">>],
   [name |-> "MM/DD/YY", tokens |-> <<"MM", "/", "DD", "/", "YY">>],
   [name |-> "MM-DD-YY", tokens |-> <<"MM", "-", "DD", "-", "YY">>],
   [name |-> "M/D/YY", tokens |-> <<"M", "/", "D", "/", "YY">>],
   [name |-> "M-D-YY", tokens |-> <<"M", "-", "D", "-", "YY">>],
   [name |-> "DD/MM/YYYY", tokens |-> <<"DD", "/", "MM", "/", "YYYY">>],
   [name |-> "DD-MM-YYYY", tokens |-> <<"DD", "-", "MM", "-", "YYYY">>],
   [name |-> "DD.MM.YYYY", tokens |-> <<"DD", ".", "MM", ".", "YYYY">>],
   [name |-> "D/M/YYYY", tokens |-> <<"D", "/", "M", "/", "YYYY">>],
   [name |-> "D-M-YYYY", tokens |-> <<"D", "-", "M", "-", "YYYY">>],
   [name |-> "D.M.YYYY", tokens |-> <<"D", ".", "M", ".", "YYYY">>],
   [name |-> "MMMM DD YYYY", tokens |-> <<"MMMM", " ", "DD", " ", "YYYY">>],
   [name |-> "MMMM DD, YYYY", tokens |-> <<"MMMM", " ", "DD", ",", " ", "YYYY">>],
   [name |-> "MMMM D YYYY", tokens |-> <<"MMMM", " ", "D", " ", "YYYY">>],
   [name |-> "MMMM D, YYYY", tokens |-> <<"MMMM", " ", "D", ",", " ", "YYYY">>],
   [name |-> "MMM DD YYYY", tokens |-> <<"MMM", " ", "DD", " ", "YYYY">>],
   [name |-> "MMM DD, YYYY", tokens |-> <<"MMM", " ", "DD", ",", " ", "YYYY">>],
   [name |-> "MMM D YYYY", tokens |-> <<"MMM", " ", "D", " ", "YYYY">>],
   [name |-> "MMM D, YYYY", tokens |-> <<"MMM", " ", "D", ",", " ", "YYYY">>],
   [name |-> "DD MMMM YYYY", tokens |-> <<"DD", " ", "MMMM", " ", "YYYY">>],
   [name |-> "D MMMM YYYY", tokens |-> <<"D", " ", "MMMM", " ", "YYYY">>],
   [name |-> "DD MMM YYYY", tokens |-> <<"DD", " ", "MMM", " ", "YYYY">>],
   [name |-> "D MMM YYYY", tokens |-> <<"D", " ", "MMM", " ", "YYYY">>],
   [name |-> "YYYYMMDD", tokens |-> <<"YYYY", "MM", "DD">>],
   [name |-> "MMDDYYYY", tokens |-> <<"MM", "DD", "YYYY">>],
   [name |-> "DDMMYYYY", tokens |-> <<"DD", "MM", "YYYY">>]
  >>

\* the checks of the loop body on the parsed date m: the year bounds, the
\* round trip through 'YYYY-MM-DD' and validateDateComponents
roundTrips(formatted) ==
  /\ moment(formatted, IsoTokens, TRUE) # Null
  /\ formatIso(moment(formatted, IsoTokens, TRUE)[1]) = formatted

accepted(m, minYear, maxYear) ==
  /\ m # Null
  /\ m[1].year >= minYear /\ m[1].year <= maxYear
  /\ roundTrips(formatIso(m[1]))
  /\ validateDateComponents(m[1])

\* the test tryStandardFormats makes of one format: it parses the text to a
\* date of a year in range that survives the re-validation.  A two-digit
\* year is already expanded by moment, so the code's own expansion
\* (year < 100) never applies
formatAccepts(fmt, dateStr, minYear, maxYear, zeroOk) ==
  accepted(moment(dateStr, fmt.tokens, zeroOk), minYear, maxYear)

\* the answer of the first accepting format, of the indices hits
firstAccepted(first, dateStr, zeroOk) ==
  Some([date |-> formatIso(moment(dateStr, formats[first].tokens, zeroOk)[1]),
        method |-> formats[first].name])

firstOf(hits, dateStr, zeroOk) ==
  IF hits = {} THEN Null
  ELSE firstAccepted(CHOOSE i \in hits : \A j \in hits : i <= j, dateStr, zeroOk)

\* tryStandardFormats(dateStr, minYear, maxYear): the first format of the
\* list that accepts the text, as [date, method], or Null
tryStandardFormats(dateStr, minYear, maxYear, zeroOk) ==
  firstOf({i \in 1..Len(formats) :
             formatAccepts(formats[i], dateStr, minYear, maxYear, zeroOk)},
          dateStr, zeroOk)

------------------------------------------------------------------------------
(* Date-of-birth normaliser: continuous digits, word numbers, voice patterns *)

\* input.replace(/\D/g, '')
cleanNumeric(input) == SelectSeq(input, IsDigit)

\* the digit groups of the continuous patterns: [from, to] of month, day, year
continuousPatterns ==
  <<[pattern |-> "MDDYY",    len |-> 5, month |-> <<1, 1>>, day |-> <<2, 3>>, year |-> <<4, 5>>],
    [pattern |-> "MMDDYY",   len |-> 6, month |-> <<1, 2>>, day |-> <<3, 4>>, year |-> <<5, 6>>],
    [pattern |-> "MDDYYYY",  len |-> 7, month |-> <<1, 1>>, day |-> <<2, 3>>, year |-> <<4, 7>>],
    [pattern |-> "MMDDYYYY", len |-> 8, month |-> <<1, 2>>, day |-> <<3, 4>>, year |-> <<5, 8>>],
    [pattern |-> "YYYYMMDD", len |-> 8, month |-> <<5, 6>>, day |-> <<7, 8>>, year |-> <<1, 4>>]>>

\* the two-digit year rule of the continuous and the voice patterns
adjustYear(y) == IF y < 50 THEN 2000 + y ELSE 1900 + y

\* the component check shared by the continuous and the voice patterns,
\* followed by moment({year, month, day}).isValid() and validateDateComponents
componentsOk(p, minYear, maxYear) ==
  /\ p.month >= 1 /\ p.month <= 12
  /\ p.day >= 1 /\ p.day <= 31
  /\ p.year >= minYear /\ p.year <= maxYear
  /\ validDate(p) /\ validateDateComponents(p)

RECURSIVE continuousFrom(_, _, _, _)
continuousFrom(i, digits, minYear, maxYear) ==
  IF i > Len(continuousPatterns) THEN Null
  ELSE
    LET pt == continuousPatterns[i]
        part(g) == ToNat(SubSeq(digits, g[1], g[2]))
        y == part(pt.year)
        p == Ymd(IF y < 100 THEN adjustYear(y) ELSE y, part(pt.month), part(pt.day))
    IN IF Len(digits) = pt.len /\ componentsOk(p, minYear, maxYear)
       THEN Some([date |-> formatIso(p), pattern |-> pt.pattern])
       ELSE continuousFrom(i + 1, digits, minYear, maxYear)

\* parseContinuousNumeric(input, minYear, maxYear)
parseContinuousNumeric(input, minYear, maxYear) ==
  LET digits == cleanNumeric(input)
  IN IF Len(digits) < 5 \/ Len(digits) > 8 THEN Null
     ELSE continuousFrom(1, digits, minYear, maxYear)

ones ==
  <<
    <<<<"z","e","r","o">>, <<"0">>>>, <<<<"o","n","e">>, <<"1">>>>, <<<<"t","w","o">>, <<"2">>>>, <<<<"t","h","r","e","e">>, <<"3">>>>, <<<<"f","o","u","r">>, <<"4">>>>,
    <<<<"f","i","v","e">>, <<"5">>>>, <<<<"s","i","x">>, <<"6">>>>, <<<<"s","e","v","e","n">>, <<"7">>>>, <<<<"e","i","g","h","t">>, <<"8">>>>, <<<<"n","i","n","e">>, <<"9">>>>
  >>

teens ==
  <<
    <<<<"t","e","n">>, <<"1","0">>>>, <<<<"e","l","e","v","e","n">>, <<"1","1">>>>, <<<<"t","w","e","l","v","e">>, <<"1","2">>>>,
    <<<<"t","h","i","r","t","e","e","n">>, <<"1","3">>>>, <<<<"f","o","u","r","t","e","e","n">>, <<"1","4">>>>, <<<<"f","i","f","t","e","e","n">>, <<"1","5">>>>,
    <<<<"s","i","x","t","e","e","n">>, <<"1","6">>>>, <<<<"s","e","v","e","n","t","e","e","n">>, <<"1","7">>>>, <<<<"e","i","g","h","t","e","e","n">>, <<"1","8">>>>,
    <<<<"n","i","n","e","t","e","e","n">>, <<"1","9">>>>
  >>

tens ==
  <<
    <<<<"t","w","e","n","t","y">>, <<"2","0">>>>, <<<<"t","h","i","r","t","y">>, <<"3","0">>>>, <<<<"f","o","r","t","y">>, <<"4","0">>>>, <<<<"f","i","f","t","y">>, <<"5","0">>>>,
    <<<<"s","i","x","t","y">>, <<"6","0">>>>, <<<<"s","e","v","e","n","t","y">>, <<"7","0">>>>, <<<<"e","i","g","h","t","y">>, <<"8","0">>>>, <<<<"n","i","n","e","t","y">>, <<"9","0">>>>
  >>

ordinals ==
  <<
    <<<<"f","i","r","s","t">>, <<"1">>>>, <<<<"s","e","c","o","n","d">>, <<"2">>>>,
    <<<<"t","h","i","r","d">>, <<"3">>>>, <<<<"f","o","u","r","t","h">>, <<"4">>>>,
    <<<<"f","i","f","t","h">>, <<"5">>>>, <<<<"s","i","x","t","h">>, <<"6">>>>,
    <<<<"s","e","v","e","n","t","h">>, <<"7">>>>, <<<<"e","i","g","h","t","h">>, <<"8">>>>,
    <<<<"n","i","n","t","h">>, <<"9">>>>, <<<<"t","e","n","t","h">>, <<"1","0">>>>,
    <<<<"e","l","e","v","e","n","t","h">>, <<"1","1">>>>, <<<<"t","w","e","l","f","t","h">>, <<"1","2">>>>,
    <<<<"t","h","i","r","t","e","e","n","t","h">>, <<"1","3">>>>, <<<<"f","o","u","r","t","e","e","n","t","h">>, <<"1","4">>>>,
    <<<<"f","i","f","t","e","e","n","t","h">>, <<"1","5">>>>, <<<<"s","i","x","t","e","e","n","t","h">>, <<"1","6">>>>,
    <<<<"s","e","v","e","n","t","e","e","n","t","h">>, <<"1","7">>>>, <<<<"e","i","g","h","t","e","e","n","t","h">>, <<"1","8">>>>,
    <<<<"n","i","n","e","t","e","e","n","t","h">>, <<"1","9">>>>, <<<<"t","w","e","n","t","i","e","t","h">>, <<"2","0">>>>,
    <<<<"t","w","e","n","t","y","-","f","i","r","s","t">>, <<"2","1">>>>, <<<<"t","w","e","n","t","y","-","s","e","c","o","n","d">>, <<"2","2">>>>,
    <<<<"t","w","e","n","t","y","-","t","h","i","r","d">>, <<"2","3">>>>, <<<<"t","w","e","n","t","y","-","f","o","u","r","t","h">>, <<"2","4">>>>,
    <<<<"t","w","e","n","t","y","-","f","i","f","t","h">>, <<"2","5">>>>, <<<<"t","w","e","n","t","y","-","s","i","x","t","h">>, <<"2","6">>>>,
    <<<<"t","w","e","n","t","y","-","s","e","v","e","n","t","h">>, <<"2","7">>>>, <<<<"t","w","e","n","t","y","-","e","i","g","h","t","h">>, <<"2","8">>>>,
    <<<<"t","w","e","n","t","y","-","n","i","n","t","h">>, <<"2","9">>>>, <<<<"t","h","i","r","t","i","e","t","h">>, <<"3","0">>>>,
    <<<<"t","h","i","r","t","y","-","f","i","r","s","t">>, <<"3","1">>>>
  >>

\* the least position from i on where Hit holds, or 0
search(t, i, Hit(_, _)) == least({j \in i..Len(t) : Hit(t, j)})

\* a global replacement from position i whose next match starts at `at`: the
\* text before the match, the replacement and the rest, or the text left when
\* there is no match
RECURSIVE replaceWholeWord(_, _, _, _)
wholeWordAt(t, i, word, digit, at) ==
  IF at = 0 THEN SubSeq(t, i, Len(t))
  ELSE SubSeq(t, i, at - 1) \o digit \o replaceWholeWord(t, at + Len(word), word, digit)

\* result.replace(new RegExp(`\\b${word}\\b`, 'gi'), digit), from position i
replaceWholeWord(t, i, word, digit) ==
  LET Hit(s, j) == /\ matchesAt(s, j, word)
                   /\ (j = 1 \/ ~IsWordChar(s[j - 1]))
                   /\ (j + Len(word) > Len(s) \/ ~IsWordChar(s[j + Len(word)]))
  IN wholeWordAt(t, i, word, digit, search(t, i, Hit))

\* the loop over the entries lo..hi of a table of <<word, digit>>, in order:
\* the first half of the entries, then the second half on what that gave
\* (nothing when no text is left).  initials are the characters of the text
\* the conversion started from: the replacements write digits only, so a
\* word whose first letter is not among them matches nowhere
RECURSIVE replaceEntries(_, _, _, _, _)
thenEntries(firstHalf, entries, lo, hi, initials) ==
  IF firstHalf = <<>> THEN <<>>
  ELSE replaceEntries(firstHalf, entries, lo, hi, initials)

replaceEntries(t, entries, lo, hi, initials) ==
  IF lo > hi THEN t
  ELSE IF lo = hi
    THEN (IF entries[lo][1][1] \in initials
          THEN replaceWholeWord(t, 1, entries[lo][1], entries[lo][2]) ELSE t)
  ELSE thenEntries(replaceEntries(t, entries, lo, (lo + hi) \div 2, initials),
                   entries, ((lo + hi) \div 2) + 1, hi, initials)

RECURSIVE replaceCompound(_, _, _, _, _)
compoundAt(t, i, tenWord, oneWord, value, at) ==
  IF at = 0 THEN SubSeq(t, i, Len(t))
  ELSE SubSeq(t, i, at - 1) \o value
         \o replaceCompound(t, at + Len(tenWord) + 1 + Len(oneWord),
                            tenWord, oneWord, value)

\* result.replace(new RegExp(`${tenWord}[- ]${oneWord}`, 'gi'), value)
replaceCompound(t, i, tenWord, oneWord, value) ==
  LET Hit(s, j) == /\ matchesAt(s, j, tenWord)
                   /\ j + Len(tenWord) <= Len(s)
                   /\ s[j + Len(tenWord)] \in {"-", " "}
                   /\ matchesAt(s, j + Len(tenWord) + 1, oneWord)
  IN compoundAt(t, i, tenWord, oneWord, value, search(t, i, Hit))

\* the loops over tens and ones: pair k counts the pairs in the loops' order,
\* from 0; the pairs lo..hi are applied first half first, a pair whose tens
\* word starts with none of the initials being skipped
RECURSIVE replaceCompounds(_, _, _, _)
thenCompounds(firstHalf, lo, hi, initials) ==
  IF firstHalf = <<>> THEN <<>> ELSE replaceCompounds(firstHalf, lo, hi, initials)

compoundOf(t, ten, one, initials) ==
  IF ten[1][1] \in initials
  THEN replaceCompound(t, 1, ten[1], one[1], NatToText(ToNat(ten[2]) + ToNat(one[2])))
  ELSE t

replaceCompounds(t, lo, hi, initials) ==
  IF lo > hi THEN t
  ELSE IF lo = hi
    THEN compoundOf(t, tens[(lo \div Len(ones)) + 1], ones[(lo % Len(ones)) + 1],
                    initials)
  ELSE thenCompounds(replaceCompounds(t, lo, (lo + hi) \div 2, initials),
                     ((lo + hi) \div 2) + 1, hi, initials)

\* the end of a run that the position at follows (the text's end when at = 0)
endBefore(t, at) == IF at = 0 THEN Len(t) ELSE at - 1

\* the end of the run of \w characters starting at i (i - 1 when none)
wordEnd(t, i) ==
  LET Hit(s, j) == ~IsWordChar(s[j])
  IN endBefore(t, search(t, i, Hit))

\* the end of the run of blanks starting at i (i - 1 when none)
blanksEnd(t, i) ==
  LET Hit(s, j) == s[j] # " "
  IN endBefore(t, search(t, i, Hit))

\* (?:\s+(\w+))? at position i: [word, next], the word <<>> when the group
\* does not take part in the match; b and e end the blanks and the word
optionalWordEnd(t, i, b, e) ==
  IF b >= i /\ e > b THEN [word |-> SubSeq(t, b + 1, e), next |-> e + 1]
  ELSE [word |-> <<>>, next |-> i]

optionalWordAfter(t, i, b) == optionalWordEnd(t, i, b, wordEnd(t, b + 1))

optionalWord(t, i) == optionalWordAfter(t, i, blanksEnd(t, i))

valueAt(entries, i) == IF i = 0 THEN 0 ELSE ToNat(entries[i][2])

\* value of a word in a table of <<word, digits>>, or 0
valueIn(entries, w) ==
  valueAt(entries, least({i \in 1..Len(entries) : entries[i][1] = w}))

Nineteen == <<"n","i","n","e","t","e","e","n">>
TwoWord == <<"t","w","o">>
Thousand == <<"t","h","o","u","s","a","n","d">>
AndWord == <<"a","n","d">>
Twenty == <<"t","w","e","n","t","y">>

\* the tens word at position i, as its index in tens, or 0
tensAt(t, i) == least({k \in 1..Len(tens) : matchesAt(t, i, tens[k][1])})

\* the replacement of one match of the nineteen pattern at `at`: the blanks
\* end at b, the tens word is tens[k], w is the optional word after it
RECURSIVE replaceNineteen(_, _)
nineteenYear(t, i, at, k, w) ==
  SubSeq(t, i, at - 1)
    \o NatToText(1900 + ToNat(tens[k][2]) + valueIn(Tail(ones), toLowerCase(w.word)))
    \o replaceNineteen(t, w.next)

nineteenTens(t, i, at, b, k) ==
  nineteenYear(t, i, at, k, optionalWord(t, b + 1 + Len(tens[k][1])))

nineteenBlanks(t, i, at, b) == nineteenTens(t, i, at, b, tensAt(t, b + 1))

nineteenAt(t, i, at) ==
  IF at = 0 THEN SubSeq(t, i, Len(t))
  ELSE nineteenBlanks(t, i, at, blanksEnd(t, at + Len(Nineteen)))

\* the replacement of /nineteen\s+(twenty|...|ninety)(?:\s+(\w+))?/gi
replaceNineteen(t, i) ==
  LET Hit(s, j) == /\ matchesAt(s, j, Nineteen)
                   /\ blanksEnd(s, j + Len(Nineteen)) >= j + Len(Nineteen)
                   /\ tensAt(s, blanksEnd(s, j + Len(Nineteen)) + 1) # 0
  IN nineteenAt(t, i, search(t, i, Hit))

\* numbersMap of the two-thousand pattern: one .. twenty
numbersMap == Tail(ones) \o teens \o <<tens[1]>>

\* the replacement of one match of the two-thousand pattern at `at`: first
\* and second are the optional words, n the first word's value in numbersMap;
\* a first word that is no number leaves the match as it is
twoThousandBy(t, at, first, second, n) ==
  IF first.word = <<>> THEN <<"2","0","0","0">>
  ELSE IF n # 0 THEN NatToText(2000 + n)
  ELSE SubSeq(t, at, second.next - 1)

RECURSIVE replaceTwoThousand(_, _)
twoThousandWords(t, i, at, first, second) ==
  SubSeq(t, i, at - 1)
    \o twoThousandBy(t, at, first, second,
                     valueIn(numbersMap, toLowerCase(first.word)))
    \o replaceTwoThousand(t, second.next)

twoThousandFirst(t, i, at, first) ==
  twoThousandWords(t, i, at, first, optionalWord(t, first.next))

\* the position after (?:\s+and)?, the blanks after 'thousand' ending at ab
afterAnd(t, afterThousand, ab) ==
  IF ab >= afterThousand /\ matchesAt(t, ab + 1, AndWord)
  THEN ab + 1 + Len(AndWord) ELSE afterThousand

twoThousandAnd(t, i, at, afterThousand) ==
  twoThousandFirst(t, i, at,
    optionalWord(t, afterAnd(t, afterThousand, blanksEnd(t, afterThousand))))

twoThousandAt(t, i, at) ==
  IF at = 0 THEN SubSeq(t, i, Len(t))
  ELSE twoThousandAnd(t, i, at, blanksEnd(t, at + Len(TwoWord)) + 1 + Len(Thousand))

\* the replacement of /two\s+thousand(?:\s+and)?(?:\s+(\w+))?(?:\s+(\w+))?/gi
replaceTwoThousand(t, i) ==
  LET Hit(s, j) == /\ matchesAt(s, j, TwoWord)
                   /\ blanksEnd(s, j + Len(TwoWord)) >= j + Len(TwoWord)
                   /\ matchesAt(s, blanksEnd(s, j + Len(TwoWord)) + 1, Thousand)
  IN twoThousandAt(t, i, search(t, i, Hit))

\* parseYearExpressions(input)
parseYearExpressions(input) == replaceTwoThousand(replaceNineteen(input, 1), 1)

OrdinalSuffixes == {<<"s","t">>, <<"n","d">>, <<"r","d">>, <<"t","h">>}

RECURSIVE cleanOrdinalSuffixes(_, _)
suffixAt(t, i, at) ==
  IF at = 0 THEN SubSeq(t, i, Len(t))
  ELSE SubSeq(t, i, at - 1) \o cleanOrdinalSuffixes(t, at + 2)

\* result.replace(/(\d+)(st|nd|rd|th)\b/gi, '$1')
cleanOrdinalSuffixes(t, i) ==
  LET Hit(s, j) == /\ j > 1 /\ IsDigit(s[j - 1])
                   /\ j + 1 <= Len(s)
                   /\ toLowerCase(SubSeq(s, j, j + 1)) \in OrdinalSuffixes
                   /\ (j + 2 > Len(s) \/ ~IsWordChar(s[j + 2]))
  IN suffixAt(t, i, search(t, i, Hit))

\* the replacements of convertWordNumbers in their order, on the lowered text
convertLowered(lowered, initials) ==
  cleanOrdinalSuffixes(
    parseYearExpressions(
      replaceEntries(
        replaceCompounds(
          replaceEntries(lowered, ordinals, 1, Len(ordinals), initials),
          0, Len(tens) * Len(ones) - 1, initials),
        ones \o teens \o tens, 1, Len(ones) + Len(teens) + Len(tens), initials)),
    1)

charsOf(t) == {t[j] : j \in 1..Len(t)}

\* convertWordNumbers(input)
convertWordNumbers(input) == convertLowered(toLowerCase(input), charsOf(toLowerCase(input)))

------------------------------------------------------------------------------
(* Date-of-birth normaliser: voice patterns, fuzzy parsing, the chain        *)

\* w digits stand at position j
digitsAt(s, j, w) == j + w - 1 <= Len(s) /\ AllDigits(SubSeq(s, j, j + w - 1))

\* after the first group, which ends before e: blanks up to b1, two digits,
\* blanks, two digits
voiceRest(s, e, b1) ==
  /\ b1 >= e /\ digitsAt(s, b1 + 1, 2)
  /\ blanksEnd(s, b1 + 3) >= b1 + 3
  /\ digitsAt(s, blanksEnd(s, b1 + 3) + 1, 2)

\* /(\d{1,2})\s+(\d{2})\s+(\d{2})/ matches at j with a first group of w digits
voiceNumericAt(s, j, w) ==
  /\ digitsAt(s, j, w)
  /\ voiceRest(s, j + w, blanksEnd(s, j + w))

\* the groups of a match of the first pattern at position at, as month, day
\* and two-digit year: the first group has w digits, b1 and b2 are the ends
\* of the two runs of blanks
voiceGroups(input, at, w, b1, b2) ==
  Some(Ymd(adjustYear(ToNat(SubSeq(input, b2 + 1, b2 + 2))),
           ToNat(SubSeq(input, at, at + w - 1)),
           ToNat(SubSeq(input, b1 + 1, b1 + 2))))

voiceSecond(input, at, w, b1) ==
  voiceGroups(input, at, w, b1, blanksEnd(input, b1 + 3))

voiceFirst(input, at, w) == voiceSecond(input, at, w, blanksEnd(input, at + w))

voiceNumericFrom(input, at) ==
  IF at = 0 THEN Null
  ELSE voiceFirst(input, at, IF voiceNumericAt(input, at, 2) THEN 2 ELSE 1)

\* the first pattern: the leftmost match, the longer first group preferred
voiceNumeric(input) ==
  LET Hit(s, j) == voiceNumericAt(s, j, 2) \/ voiceNumericAt(s, j, 1)
  IN voiceNumericFrom(input, search(input, 1, Hit))

\* the month name that starts at j and is followed by blanks and a digit: its
\* number, or 0
monthDayAt(s, j) ==
  least({k \in 1..12 :
           /\ matchesAt(s, j, months[k])
           /\ blanksEnd(s, j + Len(months[k])) >= j + Len(months[k])
           /\ digitsAt(s, blanksEnd(s, j + Len(months[k])) + 1, 1)})

\* the groups of a match of the second pattern: month k, the day of w digits
\* at d, and the year when four digits follow the blanks that end at b
monthDayGroups(input, currentYear, k, d, w, b) ==
  Some(Ymd(IF b >= d + w /\ digitsAt(input, b + 1, 4)
             THEN ToNat(SubSeq(input, b + 1, b + 4)) ELSE currentYear,
           k, ToNat(SubSeq(input, d, d + w - 1))))

monthDayDigits(input, currentYear, k, d, w) ==
  monthDayGroups(input, currentYear, k, d, w, blanksEnd(input, d + w))

monthDayDay(input, currentYear, k, d) ==
  monthDayDigits(input, currentYear, k, d, IF digitsAt(input, d, 2) THEN 2 ELSE 1)

monthDayMonth(input, currentYear, at, k) ==
  monthDayDay(input, currentYear, k, blanksEnd(input, at + Len(months[k])) + 1)

monthDayYearFrom(input, currentYear, at) ==
  IF at = 0 THEN Null
  ELSE monthDayMonth(input, currentYear, at, monthDayAt(input, at))

\* the second pattern, /(january|...|december)\s+(\d{1,2})(?:\s+(\d{4}))?/i:
\* the year is the current year when the third group takes no part
monthDayYear(input, currentYear) ==
  LET Hit(s, j) == monthDayAt(s, j) # 0
  IN monthDayYearFrom(input, currentYear, search(input, 1, Hit))

\* the two patterns in their order, each with its validation
voicePattern(numeric, named, minYear, maxYear) ==
  IF numeric # Null /\ componentsOk(numeric[1], minYear, maxYear)
    THEN Some([date |-> formatIso(numeric[1]), pattern |-> "voice_numeric"])
  ELSE IF named # Null /\ componentsOk(named[1], minYear, maxYear)
    THEN Some([date |-> formatIso(named[1]), pattern |-> "month_day_year"])
  ELSE Null

\* parseVoicePatterns(input, minYear, maxYear): new Date().getFullYear() is
\* currentYear
parseVoicePatterns(input, minYear, maxYear, currentYear) ==
  voicePattern(voiceNumeric(input), monthDayYear(input, currentYear),
               minYear, maxYear)

\* the ISO 8601 calendar forms that moment(input) recognises before any other
\* (forms with a week number or a time of day are not modelled)
isoForms ==
  <<<<"YYYY", "-", "MM", "-", "DD">>, <<"YYYY", "-", "DDD">>, <<"YYYY", "-", "MM">>,
    <<"YYYY", "MM", "DD">>, <<"YYYY", "DDD">>, <<"YYYY", "MM">>, <<"YYYY">>>>

\* the date of the n-th day of year y, searched from month m on
RECURSIVE fromDayOfYear(_, _, _)
fromDayOfYear(y, m, n) ==
  IF m = 12 \/ n <= daysInMonth(y, m) THEN Ymd(y, m, n)
  ELSE fromDayOfYear(y, m + 1, n - daysInMonth(y, m))

\* an ISO form read from the head of s: like the strict tokens, DDD being a
\* day of the year, a missing month or day being 1
RECURSIVE parseIso(_, _, _)
parseIso(s, tokens, acc) ==
  IF tokens = <<>> THEN (IF s = <<>> THEN Some(acc) ELSE Null)
  ELSE IF Head(tokens) = "DDD"
    THEN (IF digitsAt(s, 1, 3) /\ Len(s) = 3
          THEN Some(fromDayOfYear(acc.year, 1, ToNat(s))) ELSE Null)
  ELSE LET w == IF Head(tokens) = "YYYY" THEN 4
                ELSE IF Head(tokens) = "-" THEN 1 ELSE 2
           v == SubSeq(s, 1, w)
           after == SubSeq(s, w + 1, Len(s))
       IN IF Head(tokens) = "-"
            THEN (IF s # <<>> /\ s[1] = "-" THEN parseIso(after, Tail(tokens), acc)
                  ELSE Null)
          ELSE IF ~digitsAt(s, 1, w) THEN Null
          ELSE IF Head(tokens) = "YYYY"
            THEN parseIso(after, Tail(tokens), [acc EXCEPT !.year = ToNat(v)])
          ELSE IF Head(tokens) = "MM"
            THEN parseIso(after, Tail(tokens), [acc EXCEPT !.month = ToNat(v)])
          ELSE parseIso(after, Tail(tokens), [acc EXCEPT !.day = ToNat(v)])

\* the form among isoForms that takes the whole input, or 0
isoFormOf(input) ==
  least({i \in 1..Len(isoForms) : parseIso(input, isoForms[i], Ymd(0, 1, 1)) # Null})

momentOfForm(input, i, dateFallback) ==
  IF i = 0 THEN dateFallback
  ELSE validOrNull(parseIso(input, isoForms[i], Ymd(0, 1, 1)))

\* moment(input) without a format: an ISO 8601 form is parsed by moment
\* itself; any other text goes to the engine's Date constructor, whose answer
\* (dateFallback: a date or Null) is defined by the engine, not the program
momentLoose(input, dateFallback) ==
  momentOfForm(input, isoFormOf(input), dateFallback)

fuzzyResultOf(m, minYear, maxYear) ==
  IF /\ m # Null
     /\ m[1].year >= minYear /\ m[1].year <= maxYear
     /\ validateDateComponents(m[1])
  THEN Some([date |-> formatIso(m[1]), interpretation |-> "MMMM DD, YYYY"])
  ELSE Null

\* fuzzyParsing(input, minYear, maxYear)
fuzzyParsing(input, minYear, maxYear, dateFallback) ==
  fuzzyResultOf(momentLoose(input, dateFallback), minYear, maxYear)

NoDate(method, warnings) ==
  [normalized |-> Null, confidence |-> "none", method |-> method,
   warnings |-> warnings]

Normalized(date, confidence, method, warnings) ==
  [normalized |-> Some(date), confidence |-> confidence, method |-> method,
   warnings |-> warnings]

\* a mutant of firstResult: fuzzy parsing is tried under every validation level
firstResult_fuzzyUnderStrict(standardResult, continuousResult, converted, convertedResult, voiceResult, fuzzyResult, validationLevel) ==
  IF standardResult # Null
    THEN Normalized(standardResult[1].date, "high", standardResult[1].method, <<>>)
  ELSE IF continuousResult # Null
    THEN Normalized(continuousResult[1].date, "medium",
                    "continuous_numeric:" \o continuousResult[1].pattern, <<>>)
  ELSE IF converted /\ convertedResult # Null
    THEN Normalized(convertedResult[1].date, "medium",
                    "word_conversion:" \o convertedResult[1].method, <<>>)
  ELSE IF voiceResult # Null
    THEN Normalized(voiceResult[1].date, "low",
                    "voice_pattern:" \o voiceResult[1].pattern, <<>>)
  ELSE IF fuzzyResult # Null
    THEN Normalized(fuzzyResult[1].date, "low", "fuzzy_parsing", <<>>)
  ELSE NoDate("failed", <<"Unable to parse date format">>)

\* the result of the first strategy that yields one, the strategies being
\* tried in their order; fuzzy parsing is left out under 'strict'
firstResult(standardResult, continuousResult, converted, convertedResult, voiceResult, fuzzyResult, validationLevel) ==
  IF standardResult # Null
    THEN Normalized(standardResult[1].date, "high", standardResult[1].method, <<>>)
  ELSE IF continuousResult # Null
    THEN Normalized(continuousResult[1].date, "medium",
                    "continuous_numeric:" \o continuousResult[1].pattern,
                    <<"Date interpreted from continuous numeric format">>)
  ELSE IF converted /\ convertedResult # Null
    THEN Normalized(convertedResult[1].date, "medium",
                    "word_conversion:" \o convertedResult[1].method,
                    <<"Date contained word numbers that were converted">>)
  ELSE IF voiceResult # Null
    THEN Normalized(voiceResult[1].date, "low",
                    "voice_pattern:" \o voiceResult[1].pattern,
                    <<"Date interpreted from voice transcription pattern">>)
  ELSE IF validationLevel # "strict" /\ fuzzyResult # Null
    THEN Normalized(fuzzyResult[1].date, "low", "fuzzy_parsing",
                    <<"Date required fuzzy interpretation",
                      "Interpreted as: " \o fuzzyResult[1].interpretation>>)
  ELSE NoDate("failed", <<"Unable to parse date format">>)

\* the strategy functions that normalizeDateOfBirth calls, in the order of
\* the calls: each is reached when no earlier one returned a date, the retry
\* of the standard formats only when the conversion changed the text, and
\* fuzzyParsing only when the validation level is not 'strict'
called(standardResult, continuousResult, converted, convertedResult, voiceResult, validationLevel) ==
  <<"tryStandardFormats">> \o
  (IF standardResult # Null THEN <<>>
   ELSE <<"parseContinuousNumeric">> \o
     (IF continuousResult # Null THEN <<>>
      ELSE <<"convertWordNumbers">> \o
        (IF converted THEN <<"tryStandardFormats">> ELSE <<>>) \o
        (IF converted /\ convertedResult # Null THEN <<>>
         ELSE <<"parseVoicePatterns">> \o
           (IF voiceResult # Null \/ validationLevel = "strict" THEN <<>>
            ELSE <<"fuzzyParsing">>))))

\* the result of normalizeDateOfBirth together with the calls it made
withCalls(result, made) ==
  [normalized |-> result.normalized, confidence |-> result.confidence,
   method |-> result.method, warnings |-> result.warnings, calls |-> made]

outcome(standardResult, continuousResult, converted, convertedResult, voiceResult, fuzzyResult, validationLevel) ==
  withCalls(firstResult(standardResult, continuousResult, converted, convertedResult,
                        voiceResult, fuzzyResult, validationLevel),
            called(standardResult, continuousResult, converted, convertedResult,
                   voiceResult, validationLevel))

\* the strategies on the cleaned text and its word conversion
strategies(cleaned, wordConverted, validationLevel, minYear, maxYear, env) ==
  outcome(tryStandardFormats(cleaned, minYear, maxYear, env.zeroOk),
          parseContinuousNumeric(cleaned, minYear, maxYear),
          wordConverted # cleaned,
          tryStandardFormats(wordConverted, minYear, maxYear, env.zeroOk),
          parseVoicePatterns(wordConverted, minYear, maxYear, env.currentYear),
          fuzzyParsing(wordConverted, minYear, maxYear, env.dateFallback),
          validationLevel)

\* normalizeDateOfBirth(rawDob, validationLevel, minYear, maxYear) of
\* services/dob-normalize.  rawDob is [type, text]; env gives what the
\* function reads from its surroundings: the current year, the installed
\* moment build's treatment of a leading zero and the Date constructor's
\* answer.  The warning that quotes the interpretation is kept by its format
normalizeDateOfBirth(rawDob, validationLevel, minYear, maxYear, env) ==
  IF rawDob.type # "string" \/ rawDob.text = <<>>
    THEN withCalls(NoDate("invalid_input", <<>>), <<>>)
  ELSE strategies(trim(rawDob.text), convertWordNumbers(trim(rawDob.text)),
                  validationLevel, minYear, maxYear, env)

------------------------------------------------------------------------------
(* Date-of-birth normaliser: output formats and the chrono variant           *)

\* the day before d
prevDay(d) ==
  IF d.day > 1 THEN Ymd(d.year, d.month, d.day - 1)
  ELSE IF d.month > 1 THEN Ymd(d.year, d.month - 1, daysInMonth(d.year, d.month - 1))
  ELSE Ymd(d.year - 1, 12, 31)

\* the day after d
nextDay(d) ==
  IF d.day < daysInMonth(d.year, d.month) THEN Ymd(d.year, d.month, d.day + 1)
  ELSE IF d.month < 12 THEN Ymd(d.year, d.month + 1, 1)
  ELSE Ymd(d.year + 1, 1, 1)

\* moment's month names as format() writes them
capitalize(name) ==
  LET small == <<"j", "f", "m", "a", "s", "o", "n", "d">>
      large == <<"J", "F", "M", "A", "S", "O", "N", "D">>
  IN <<large[CHOOSE i \in 1..8 : small[i] = name[1]]>> \o Tail(name)

\* m.format(tokens)
RECURSIVE format(_, _)
format(d, tokens) ==
  IF tokens = <<>> THEN <<>>
  ELSE LET tk == Head(tokens)
           piece == IF tk = "YYYY" THEN padStart(NatToText(d.year), 4)
                    ELSE IF tk = "MM" THEN padStart(NatToText(d.month), 2)
                    ELSE IF tk = "DD" THEN padStart(NatToText(d.day), 2)
                    ELSE IF tk = "MMMM" THEN capitalize(months[d.month])
                    ELSE IF tk = "MMM" THEN capitalize(monthsShort[d.month])
                    ELSE <<tk>>
       IN piece \o format(d, Tail(tokens))

UsTokens == <<"MM", "/", "DD", "/", "YYYY">>
EuTokens == <<"DD", "/", "MM", "/", "YYYY">>
LongTokens == <<"MMMM", " ", "DD", ",", " ", "YYYY">>
ShortTokens == <<"MMM", " ", "DD", ",", " ", "YYYY">>

\* formatMap[format] for the keys of the map (a format that is no key is
\* handed to moment as it is; every output_format below is a key)
formatMap(outputFormat) ==
  CASE outputFormat \in {"MM/DD/YYYY", "US"} -> UsTokens
    [] outputFormat = "YYYY-MM-DD" -> IsoTokens
    [] outputFormat \in {"DD/MM/YYYY", "EU"} -> EuTokens
    [] outputFormat = "LONG" -> LongTokens
    [] outputFormat = "SHORT" -> ShortTokens

\* m.toISOString() of the local midnight of d on a server utcOffset hours
\* east of UTC
toISOString(d, utcOffset) ==
  LET day  == IF utcOffset > 0 THEN prevDay(d) ELSE d
      hour == IF utcOffset > 0 THEN 24 - utcOffset ELSE 0 - utcOffset
  IN formatIso(day) \o <<"T">> \o padStart(NatToText(hour), 2)
       \o <<":","0","0",":","0","0",".","0","0","0","Z">>

writeOutput(m, outputFormat, utcOffset) ==
  IF outputFormat = "ISO" THEN toISOString(m, utcOffset)
  ELSE format(m, formatMap(outputFormat))

\* formatDateOutput(dateStr, format)
formatDateOutput(dateStr, outputFormat, utcOffset) ==
  writeOutput(moment(dateStr, IsoTokens, TRUE)[1], outputFormat, utcOffset)

\* ---- the chrono variant ----

\* what wordsToNumbers(word, {fuzzy: true}) can make of the text's words: the
\* library's fuzzy matching is not part of the program, so either every word
\* is kept or the text becomes a number
WordsToNumbersOutcomes(t) == {t, <<"1">>}

\* preprocessText(text), the words-to-numbers library answering converted;
\* the corrections look for a backspace character around each key and so
\* change no text without one
preprocessText(converted) == trim(collapseSpaces(converted))

\* validateDOB(date)
validateDOB(date, currentYear) ==
  ~(date.year > currentYear \/ date.year < currentYear - 120)

\* the formats handed to date-fns parse
fnsFormats ==
  <<<<"MMMM", " ", "d", " ", "yyyy">>, <<"d", " ", "MMMM", " ", "yyyy">>,
    <<"MM", "/", "dd", "/", "yyyy">>, <<"M", "/", "d", "/", "yyyy">>,
    <<"MM", "-", "dd", "-", "yyyy">>, <<"M", "-", "d", "-", "yyyy">>,
    <<"yyyy", "-", "MM", "-", "dd">>, <<"yyyy", "/", "MM", "/", "dd">>>>

\* the greatest of a set of widths, or 0
greatest(run) == IF run = {} THEN 0 ELSE CHOOSE n \in run : \A k \in run : n >= k

\* the digits a date-fns numeric token of width w takes: one up to w digits
fnsDigits(s, w) == greatest({n \in 1..w : digitsAt(s, 1, n)})

\* the number of characters a date-fns token takes from the head of s, or 0
fnsWidth(s, tk) ==
  IF tk = "yyyy" THEN fnsDigits(s, 4)
  ELSE IF tk \in {"MM", "M", "dd", "d"} THEN fnsDigits(s, 2)
  ELSE IF tk = "MMMM" THEN nameWidth(monthsParse(s, months), months)
  ELSE IF s # <<>> /\ s[1] = tk THEN 1 ELSE 0

fnsField(acc, tk, s, n) ==
  IF tk = "yyyy" THEN [acc EXCEPT !.year = ToNat(SubSeq(s, 1, n))]
  ELSE IF tk \in {"MM", "M"} THEN [acc EXCEPT !.month = ToNat(SubSeq(s, 1, n))]
  ELSE IF tk \in {"dd", "d"} THEN [acc EXCEPT !.day = ToNat(SubSeq(s, 1, n))]
  ELSE IF tk = "MMMM" THEN [acc EXCEPT !.month = monthsParse(s, months)]
  ELSE acc

RECURSIVE parseFns(_, _, _)
takeFns(s, tokens, acc, n) ==
  IF n = 0 THEN Null
  ELSE parseFns(SubSeq(s, n + 1, Len(s)), Tail(tokens),
                fnsField(acc, Head(tokens), s, n))

\* date-fns parse(text, format, new Date()): the date, or Null for Invalid Date
parseFns(s, tokens, acc) ==
  IF tokens = <<>> THEN (IF s = <<>> /\ validDate(acc) THEN Some(acc) ELSE Null)
  ELSE takeFns(s, tokens, acc, fnsWidth(s, Head(tokens)))

fnsDateOf(cleanedText, now, i) ==
  IF i = 0 THEN Null ELSE parseFns(cleanedText, fnsFormats[i], now)

\* the loop over the formats: the first valid date, or Null
firstFnsDate(cleanedText, now) ==
  fnsDateOf(cleanedText, now,
            least({i \in 1..Len(fnsFormats) :
                     parseFns(cleanedText, fnsFormats[i], now) # Null}))

\* the validated date as 'yyyy-MM-dd', or Null
validated(parsedDate, currentYear) ==
  IF parsedDate # Null /\ validateDOB(parsedDate[1], currentYear)
  THEN Some(formatIso(parsedDate[1]))
  ELSE Null

\* normalizeDateOfBirth(rawDob) of the chrono variant: the 'yyyy-MM-dd' text
\* or Null.  converted is the words-to-numbers outcome for the lower-cased
\* text, chronoDate what chrono.parseDate answers for the cleaned text
normalizeDateOfBirth_chrono(rawDob, now, converted, chronoDate) ==
  IF rawDob.type # "string" \/ trim(rawDob.text) = <<>> THEN Null
  ELSE validated(IF chronoDate # Null THEN chronoDate
                 ELSE firstFnsDate(preprocessText(converted), now),
                 now.year)

------------------------------------------------------------------------------
(* POST /api/enhanced-dob-normalize: the handler of services/dob-normalize   *)
(* ("enhanced") and of the chrono variant ("chrono")                         *)

CurrentYear == 2026
MaxRequests == 2

\* the server's clock: a day late in the year and the year's last day
Nows == {Ymd(CurrentYear, 11, 4), Ymd(CurrentYear, 12, 31)}

\* the dates callers speak: a birth date, one more than 120 years back, a
\* day that no calendar has, one later in the current year, one next year
SpokenDates ==
  {Ymd(CurrentYear - 36, 1, 5), Ymd(CurrentYear - 125, 1, 5),
   Ymd(CurrentYear - 36, 2, 30), Ymd(CurrentYear, 12, 30),
   Ymd(CurrentYear + 1, 1, 5)}

Styles == {"MM/DD/YYYY", "YYYY-MM-DD", "MMMM D, YYYY"}

\* a spoken date written in a style
render(d, style) ==
  CASE style = "MM/DD/YYYY" -> format(d, UsTokens)
    [] style = "YYYY-MM-DD" -> format(d, IsoTokens)
    [] style = "MMMM D, YYYY" ->
         months[d.month] \o <<" ">> \o NatToText(d.day) \o <<",", " ">>
           \o NatToText(d.year)

\* texts that reach the later strategies
FixedTexts ==
  {<<"t","o","m","o","r","r","o","w">>,
   <<"1","9","9","0">>,
   <<"j","a","n","u","a","r","y"," ","f","i","f","t","h"," ","1","9","9","0">>,
   <<"j","a","n","u","a","r","y"," ","5","t","h"," ","1","9","9","0">>,
   <<"d","e","c","e","m","b","e","r"," ","3","0">>,
   <<"1","2"," ","1","5"," ","8","0"," ","1","1">>,
   <<"1","0","5","1","9","9","0">>,
   <<"1","/","0","5","/","1","9","9","0">>,
   <<"1","/","5","/","9","0">>}

\* February 29 of a year that is no leap year
NonLeapFeb29 == render(Ymd(CurrentYear - 36, 2, 29), "MM/DD/YYYY")

RawTexts ==
  {render(d, st) : d \in SpokenDates, st \in Styles} \cup FixedTexts \cup {NonLeapFeb29}

String(t) == [type |-> "string", text |-> t]

\* raw_dob values that are no text: absent, null, a number, a boolean
NoText(type) == [type |-> type, text |-> <<>>]

DefaultFields ==
  [validation_level |-> Null, output_format |-> Null, min_year |-> Null,
   max_year |-> Null, attempt_number |-> Null]

LowerMinYear == 1800
HigherMaxYear == 2100

Fields(lv, of, mn, mx, an) ==
  [validation_level |-> lv, output_format |-> of, min_year |-> mn,
   max_year |-> mx, attempt_number |-> an]

\* request bodies: every text with the defaults; a birth date with the
\* level, the output format and the attempt set; a date before 1900 and one
\* of next year with the year bounds set; the fixed texts under 'strict'
DobRequests ==
  {[raw_dob |-> String(t), fields |-> DefaultFields] : t \in RawTexts}
  \cup {[raw_dob |-> String(t), fields |-> DefaultFields] : t \in {<<>>, <<" ">>}}
  \cup {[raw_dob |-> NoText(ty), fields |-> DefaultFields] :
          ty \in {"undefined", "null", "number", "boolean"}}
  \cup {[raw_dob |-> String(render(Ymd(CurrentYear - 36, 1, 5), "MM/DD/YYYY")),
         fields |-> Fields(lv, of, Null, Null, an)] :
          lv \in {Null, Some("strict")},
          of \in {Null, Some("ISO")},
          an \in {Null, Some(2)}}
  \cup {[raw_dob |-> String(render(Ymd(CurrentYear - 36, 1, 5), "MM/DD/YYYY")),
         fields |-> Fields(Null, Some("US"), Null, Null, Null)]}
  \cup {[raw_dob |-> String(render(d, "MM/DD/YYYY")),
         fields |-> Fields(Null, Null, mn, mx, Null)] :
          d \in {Ymd(CurrentYear - 130, 1, 5), Ymd(CurrentYear + 1, 1, 5)},
          mn \in {Null, Some(LowerMinYear)},
          mx \in {Null, Some(HigherMaxYear)}}
  \cup {[raw_dob |-> String(t),
         fields |-> Fields(Some("strict"), Null, Null, Null, Null)] :
          t \in {<<"1","9","9","0">>, <<"t","o","m","o","r","r","o","w">>}}

\* a destructuring default: the value sent, or the default when none was
orDefault(field, default) == IF field = Null THEN default ELSE field[1]

\* the response bodies, with the HTTP status
DobResponse(status, type, dob_iso, result, cached) ==
  [status |-> status, type |-> type, dob_iso |-> dob_iso,
   confidence |-> result.confidence, parse_method |-> result.method,
   validation_warnings |-> result.warnings, cached |-> cached]

NoResultSent == [confidence |-> "", method |-> "", warnings |-> <<>>]

\* `dob:${raw_dob}:${validation_level}`
cacheKey(raw_dob, validation_level) == [raw_dob |-> raw_dob.text, level |-> validation_level]

\* the date a text writes as month/day/year or as month name, day and year,
\* whether or not the calendar has that day; Null when it writes none
plausible(got) ==
  IF got # Null /\ got[1].month \in 1..12 /\ got[1].day \in 1..31 THEN got ELSE Null

firstOfTwo(us, named) == plausible(IF us # Null THEN us ELSE named)

writtenDate(t) ==
  firstOfTwo(parseTokens(t, UsTokens, Ymd(0, 0, 0), TRUE),
             parseTokens(t, <<"MMMM", " ", "D", ",", " ", "YYYY">>, Ymd(0, 0, 0), TRUE))

\* a day past the end of its month, counted on into the next month
rollOver(d) ==
  IF d.day <= daysInMonth(d.year, d.month) THEN d
  ELSE IF d.month < 12 THEN Ymd(d.year, d.month + 1, d.day - daysInMonth(d.year, d.month))
  ELSE Ymd(d.year + 1, 1, d.day - daysInMonth(d.year, d.month))

\* what the Date constructor can answer for a text that is no ISO form:
\* Invalid Date, or, on an engine that reads the text, the date it writes,
\* a day past the month's end rolling over
rolledOver(got) ==
  {Null} \cup (IF got # Null THEN {Some(rollOver(got[1]))} ELSE {})

DateFallbacks(t) == rolledOver(writtenDate(t))

Tomorrow == <<"t","o","m","o","r","r","o","w">>

\* what chrono.parseDate(text, now, {forwardDate: false}) can answer: nothing,
\* or the date the text means: the next day for 'tomorrow', the date written,
\* a month and day without a year falling in the current year
validOnly(got) == IF got # Null /\ validDate(got[1]) THEN {got} ELSE {}

ChronoDates(t, now) ==
  {Null}
  \cup (IF t = Tomorrow THEN {Some(nextDay(now))} ELSE {})
  \cup validOnly(writtenDate(t))
  \cup validOnly(monthDayYear(t, now.year))

\* the response body for the result of normalizeDateOfBirth
responseOf(result, output_format, utcOffset) ==
  IF result.normalized # Null
  THEN DobResponse(200, "success",
         Some(formatDateOutput(result.normalized[1], output_format, utcOffset)),
         result, FALSE)
  ELSE DobResponse(200, "unable_to_normalize", Null, result, FALSE)

\* cache.set(cacheKey, response) for a successful high-confidence result
cacheAfter(store, key, result, response) ==
  IF result.normalized # Null /\ result.confidence = "high"
  THEN [k \in DOMAIN store \cup {key} |-> IF k = key THEN response ELSE store[k]]
  ELSE store

answered(store, key, result, response) ==
  [response |-> response, cache |-> cacheAfter(store, key, result, response),
   calls |-> result.calls]

normalizedAnswer(store, key, result, output_format, utcOffset) ==
  answered(store, key, result, responseOf(result, output_format, utcOffset))

\* the handler of services/dob-normalize on body r; the response and the
\* cache after it
enhancedHandler(r, srv, store, dateFallback) ==
  LET raw_dob          == r.raw_dob
      validation_level == orDefault(r.fields.validation_level, "standard")
      output_format    == orDefault(r.fields.output_format, "YYYY-MM-DD")
      min_year         == orDefault(r.fields.min_year, 1900)
      max_year         == orDefault(r.fields.max_year, srv.now.year)
      attempt_number   == orDefault(r.fields.attempt_number, 1)
      key              == cacheKey(raw_dob, validation_level)
  IN IF raw_dob.type \in {"number", "boolean"}
       \* raw_dob?.substring is not a function: the catch block answers
       THEN [response |-> DobResponse(500, "error", Null, NoResultSent, FALSE),
             cache |-> store, calls |-> <<>>]
     ELSE IF raw_dob.type # "string" \/ raw_dob.text = <<>>
       THEN [response |-> DobResponse(400, "error", Null, NoResultSent, FALSE),
             cache |-> store, calls |-> <<>>]
     ELSE IF key \in DOMAIN store /\ attempt_number = 1
       THEN [response |-> [store[key] EXCEPT !.cached = TRUE], cache |-> store,
             calls |-> <<>>]
     ELSE normalizedAnswer(store, key,
            normalizeDateOfBirth(raw_dob, validation_level, min_year, max_year,
              [zeroOk |-> srv.zeroOk, currentYear |-> srv.now.year,
               dateFallback |-> dateFallback]),
            output_format, srv.utcOffset)

\* the handler of the chrono variant on body r
chronoHandler(r, now, converted, chronoDate) ==
  LET normalizedDate == normalizeDateOfBirth_chrono(r.raw_dob, now, converted, chronoDate)
  IN IF r.raw_dob.type \in {"undefined", "null"} \/
        (r.raw_dob.type = "string" /\ r.raw_dob.text = <<>>)
       THEN DobResponse(400, "", Null, NoResultSent, FALSE)
     ELSE IF normalizedDate # Null
       THEN DobResponse(200, "success", normalizedDate, NoResultSent, FALSE)
     ELSE DobResponse(422, "unable_to_normalize", Null, NoResultSent, FALSE)

\* the parsers the chrono variant calls: chrono, then date-fns when chrono
\* found no date
chronoCalls(rawDob, chronoDate) ==
  IF rawDob.type # "string" \/ trim(rawDob.text) = <<>> THEN <<>>
  ELSE <<"chrono.parseDate">> \o (IF chronoDate = Null THEN <<"parse">> ELSE <<>>)

\* the deployments: the service, its clock, the installed moment build and
\* the server's hours east of UTC
FirstNow == Ymd(CurrentYear, 11, 4)

DobServers ==
  {[service |-> "enhanced", now |-> FirstNow, zeroOk |-> TRUE, utcOffset |-> 0],
   [service |-> "enhanced", now |-> FirstNow, zeroOk |-> FALSE, utcOffset |-> 2],
   [service |-> "chrono", now |-> FirstNow, zeroOk |-> TRUE, utcOffset |-> 0]}

TimeIdle ==
  /\ text = <<>> /\ today = 0 /\ chrono = NoChrono /\ parsed = Null
  /\ consulted = <<>> /\ tod = "" /\ range = Null /\ fn = ""
  /\ HandlerIdle

InitDob ==
  /\ server \in DobServers
  /\ cache = <<>>
  /\ dobReq = Null
  /\ dobRes = Null
  /\ served = 0
  /\ tried = <<>>
  /\ resent = Null
  /\ TimeIdle
  /\ WordsIdle
  /\ SlotsIdle
  /\ RestIdle

\* what the handler can answer to body r: plain is its answer when the Date
\* constructor yields Invalid Date; its other answers matter only when the
\* chain fails without one
enhancedAnswers(r, srv, store, plain) ==
  {plain} \cup
  (IF plain.response.parse_method = "failed"
   THEN {enhancedHandler(r, srv, store, dateFallback) :
           dateFallback \in DateFallbacks(convertWordNumbers(trim(r.raw_dob.text)))
                              \ {Null}}
   ELSE {})

\* services/dob-normalize takes the body r, from its arrival to its response
Answer(r) ==
  \E done \in enhancedAnswers(r, server, cache, enhancedHandler(r, server, cache, Null)) :
    /\ dobReq' = Some(r)
    /\ dobRes' = Some(done.response)
    /\ tried' = done.calls
    /\ cache' = done.cache

\* a request to services/dob-normalize
NormalizeDob ==
  /\ server.service = "enhanced"
  /\ served < MaxRequests
  /\ served' = served + 1
  /\ \E r \in DobRequests : Answer(r)
  /\ resent' = Null
  /\ UNCHANGED server
  /\ UNCHANGED notDobVars

\* the caller sends the date of a success answer, which the default output
\* format wrote as YYYY-MM-DD, back as raw_dob with the same other fields
NormalizeAgain ==
  /\ server.service = "enhanced"
  /\ served <= MaxRequests
  /\ resent = Null
  /\ served' = served + 1
  /\ dobRes # Null
  /\ dobRes[1].type = "success"
  /\ dobReq[1].fields.output_format = Null
  /\ Answer([raw_dob |-> String(dobRes[1].dob_iso[1]), fields |-> dobReq[1].fields])
  /\ resent' = dobRes[1].dob_iso
  /\ UNCHANGED server
  /\ UNCHANGED notDobVars

\* a request to the chrono variant, from its arrival to its response
NormalizeDobChrono ==
  /\ server.service = "chrono"
  /\ served < MaxRequests
  /\ served' = served + 1
  /\ \E r \in DobRequests :
       \E converted \in WordsToNumbersOutcomes(toLowerCase(r.raw_dob.text)) :
       \E chronoDate \in ChronoDates(preprocessText(converted), server.now) :
         /\ dobReq' = Some(r)
         /\ dobRes' = Some(chronoHandler(r, server.now, converted, chronoDate))
         /\ tried' = chronoCalls(r.raw_dob, chronoDate)
  /\ resent' = Null
  /\ UNCHANGED <<server, cache>>
  /\ UNCHANGED notDobVars

\* stdTTL: an entry's hour is over and the cache drops it
Expire ==
  /\ \E key \in DOMAIN cache :
       cache' = [k \in DOMAIN cache \ {key} |-> cache[k]]
  /\ UNCHANGED <<server, dobReq, dobRes, served, tried, resent>>
  /\ UNCHANGED notDobVars

\* the server's clock moves on to a later day
ClockAdvance ==
  /\ \E n \in Nows : isBefore(server.now, n) /\ server' = [server EXCEPT !.now = n]
  /\ UNCHANGED <<cache, dobReq, dobRes, served, tried, resent>>
  /\ UNCHANGED notDobVars

NextDob ==
  \/ NormalizeDob
  \/ NormalizeAgain
  \/ NormalizeDobChrono
  \/ Expire
  \/ ClockAdvance

SpecDob == InitDob /\ [][NextDob]_vars

------------------------------------------------------------------------------
(* Properties of the date-of-birth normaliser *)

\* the last DOB request was answered with a date
ReturnedDob == dobRes # Null /\ dobRes[1].type = "success"

\* the calendar date written in the answer's dob_iso, whichever output
\* format wrote it (of an ISO timestamp, the date before the 'T')
dateWritten(written) ==
  IF Len(written) > Len(IsoTokens) * 2
    THEN moment(SubSeq(written, 1, 10), IsoTokens, TRUE)[1]
  ELSE IF moment(written, IsoTokens, TRUE) # Null
    THEN moment(written, IsoTokens, TRUE)[1]
  ELSE moment(written, UsTokens, TRUE)[1]

ReturnedDate == dateWritten(dobRes[1].dob_iso[1])

\* C9: whatever the request's other fields are, no date is returned whose
\* year lies outside [currentYear - 120, currentYear]
C9_YearWithinBand ==
  ReturnedDob =>
    /\ ReturnedDate.year >= server.now.year - 120
    /\ ReturnedDate.year <= server.now.year

\* C10: no date later than the server's current date is returned
C10_NeverFuture ==
  ReturnedDob => ~isBefore(server.now, ReturnedDate)

\* the texts of the requests that write a day which the month does not have
InvalidDayTexts ==
  {render(d, st) : d \in {sd \in SpokenDates : ~validDate(sd)}, st \in Styles}
    \cup {NonLeapFeb29}

NamesInvalidDay ==
  /\ dobReq # Null
  /\ dobReq[1].raw_dob.type = "string"
  /\ dobReq[1].raw_dob.text \in InvalidDayTexts

\* C11: a text that names a calendar-invalid day is answered with the failure
\* marker under every validation level, never with a following date
C11_InvalidDayRejected ==
  (dobRes # Null /\ NamesInvalidDay) => dobRes[1].type = "unable_to_normalize"

\* the chain of services/dob-normalize in full: strict formats, continuous
\* digits, word conversion with its retry of the strict formats, voice
\* patterns, fuzzy parsing
StrategyOrder ==
  <<"tryStandardFormats", "parseContinuousNumeric", "convertWordNumbers",
    "tryStandardFormats", "parseVoicePatterns", "fuzzyParsing">>

\* the chain up to its n-th call, with or without the retry that is made only
\* for a text the conversion changed
ChainUpTo(n) ==
  {SubSeq(StrategyOrder, 1, n)} \cup
  (IF n > 4 THEN {SubSeq(StrategyOrder, 1, 3) \o SubSeq(StrategyOrder, 5, n)} ELSE {})

\* the last request ran the chain (it was neither refused nor served from the
\* cache)
RanChain == dobRes # Null /\ server.service = "enhanced" /\ tried # <<>>

\* the number of calls after which the strategy that gave the method returns
CallsOf(method) ==
  IF method \in {formats[i].name : i \in 1..Len(formats)} THEN {1}
  ELSE IF method \in {"continuous_numeric:" \o continuousPatterns[i].pattern :
                        i \in 1..Len(continuousPatterns)} THEN {2}
  ELSE IF method \in {"word_conversion:" \o formats[i].name : i \in 1..Len(formats)}
    THEN {4}
  ELSE IF method \in {"voice_pattern:voice_numeric", "voice_pattern:month_day_year"}
    THEN {5}
  ELSE IF method = "fuzzy_parsing" THEN {6}
  ELSE {}

StrictRequest ==
  dobReq # Null /\ dobReq[1].fields.validation_level = Some("strict")

\* C12: the strategies are called in their fixed order; a success comes from
\* the last strategy called, a failure after all of them; under validation
\* level 'strict' fuzzy parsing is never called, so a strict request that the
\* first four strategies fail yields unable_to_normalize
C12_StrategyOrder ==
  RanChain =>
    /\ \E n \in 1..Len(StrategyOrder) : tried \in ChainUpTo(n)
    /\ dobRes[1].type = "success" =>
         \E n \in CallsOf(dobRes[1].parse_method) : tried \in ChainUpTo(n)
    /\ dobRes[1].type # "success" =>
         /\ dobRes[1].type = "unable_to_normalize"
         /\ tried \in ChainUpTo(IF StrictRequest THEN 5 ELSE 6)
    /\ StrictRequest =>
         /\ \A i \in 1..Len(tried) : tried[i] # "fuzzyParsing"
         /\ dobRes[1].parse_method # "fuzzy_parsing"

\* a strict request that every strategy before fuzzy parsing fails
C12_Witness ==
  /\ RanChain /\ StrictRequest
  /\ tried \in ChainUpTo(5)
  /\ dobRes[1].type = "unable_to_normalize"

\* C13: no DOB request makes the handler throw (no 500 answer); the answer has
\* type 'success' exactly when dob_iso is a YYYY-MM-DD date and type
\* 'unable_to_normalize' exactly when dob_iso is null
C13_TypeMatchesDob ==
  dobRes # Null =>
    /\ dobRes[1].status # 500
    /\ dobRes[1].type = "success" <=>
         (dobRes[1].dob_iso # Null /\ moment(dobRes[1].dob_iso[1], IsoTokens, TRUE) # Null)
    /\ dobRes[1].type = "unable_to_normalize" <=> dobRes[1].dob_iso = Null

\* a month and a day said without a year
DecemberThirty == <<"d","e","c","e","m","b","e","r"," ","3","0">>

\* the last request went to services/dob-normalize with the default fields
\* and the text t
AskedPlainly(t) ==
  /\ dobReq # Null
  /\ dobRes # Null
  /\ server.service = "enhanced"
  /\ dobReq[1] = [raw_dob |-> String(t), fields |-> DefaultFields]

\* the texts that write, year included, a calendar date after the server's
FutureWithYear ==
  {render(d, st) : d \in {sd \in SpokenDates : validDate(sd) /\ isBefore(server.now, sd)}, st \in Styles}

\* C15: a month and day said without a year, which lie in the future when
\* taken in the current year, are answered with the date one year earlier
\* (plausible under the default bounds); a future date said with its year is
\* rejected, not shifted
C15_ShiftOnlyWithoutYear ==
  /\ (AskedPlainly(DecemberThirty) /\ isBefore(server.now, Ymd(server.now.year, 12, 30))) =>
       /\ ReturnedDob
       /\ ReturnedDate = Ymd(server.now.year - 1, 12, 30)
  /\ \A t \in FutureWithYear :
       AskedPlainly(t) => dobRes[1].type = "unable_to_normalize"

\* the last request sent the YYYY-MM-DD date of the answer before it back
SentBack == resent # Null /\ dobRes # Null

\* C16: a date that normalization returned, written as YYYY-MM-DD and
\* normalized again with the request's other fields unchanged, is returned
\* again, the same date
C16_RoundTrip ==
  SentBack =>
    /\ dobRes[1].type = "success"
    /\ dobRes[1].dob_iso = resent

\* ---- C24 ----

\* the response was served from the cache
CacheHit == dobRes # Null /\ dobRes[1].cached

\* what the handler answers to the request when the cache is empty
uncached(dateFallback) ==
  enhancedHandler(dobReq[1], server, <<>>, dateFallback).response

\* C24: the cache is transparent: the dob_iso and the type of a response
\* served from the cache are those the handler would compute for the
\* request (raw_dob, validation_level, output_format, min_year, max_year)
\* without the cache.
C24_CacheTransparent ==
  CacheHit =>
    \E dateFallback \in DateFallbacks(dobReq[1].raw_dob.text) :
      /\ uncached(dateFallback).dob_iso = dobRes[1].dob_iso
      /\ uncached(dateFallback).type = dobRes[1].type

-------------------------------------------------------------------------------
(* Date-of-birth normaliser: the spoken years handed to convertWordNumbers   *)

\* the largest n of 'two thousand [and] <n>' that is spoken
MaxOffset == 26

Blank == <<" ">>

\* the word of a number from 1 to 29, as the tables of convertWordNumbers
\* spell it
numberWord(n) ==
  IF n < 10 THEN ones[n + 1][1]
  ELSE IF n < 20 THEN teens[n - 9][1]
  ELSE IF n = 20 THEN tens[1][1]
  ELSE tens[1][1] \o Blank \o ones[n - 19][1]

\* a spoken year: the year the grammar implies and the words that say it
SpokenYear(year, words) == [year |-> year, words |-> words]

\* 'nineteen <tens> [<ones>]' is 1900 + tens + ones
NineteenYears ==
  {SpokenYear(1900 + ToNat(tens[k][2]), Nineteen \o Blank \o tens[k][1]) : k \in 1..Len(tens)}
  \cup {SpokenYear(1900 + ToNat(tens[k][2]) + n, Nineteen \o Blank \o tens[k][1] \o Blank \o numberWord(n)) : k \in 1..Len(tens), n \in 1..9}

\* 'two thousand [and] <n>' is 2000 + n; 'two thousand' alone is 2000
TwoThousandYears ==
  {SpokenYear(2000, TwoWord \o Blank \o Thousand)}
  \cup {SpokenYear(2000 + n, TwoWord \o Blank \o Thousand \o Blank \o numberWord(n)) : n \in 1..MaxOffset}
  \cup {SpokenYear(2000 + n, TwoWord \o Blank \o Thousand \o Blank \o AndWord \o Blank \o numberWord(n)) : n \in 1..MaxOffset}

\* what is said before the year: nothing, or a month and a day in digits
Befores == {<<>>, <<"m","a","r","c","h"," ","3"," ">>}

SpokenPhrases ==
  {[year |-> y.year, words |-> y.words, before |-> b] : y \in NineteenYears \cup TwoThousandYears, b \in Befores}

InitWords ==
  /\ phrase \in {Some(p) : p \in SpokenPhrases}
  /\ numerals = Null
  /\ TimeIdle
  /\ DobIdle
  /\ SlotsIdle
  /\ RestIdle

\* convertWordNumbers(input) is applied to the text
ConvertWords ==
  /\ phrase # Null
  /\ numerals = Null
  /\ numerals' = Some(convertWordNumbers(phrase[1].before \o phrase[1].words))
  /\ UNCHANGED phrase
  /\ UNCHANGED notWordVars

NextWords == ConvertWords

SpecWords == InitWords /\ [][NextWords]_vars

\* C14: for every spoken year of the compound-year grammar, convertWordNumbers
\* puts the one 4-digit year that the grammar implies in the place of the
\* words: 'nineteen <tens> [<ones>]' becomes 1900 + tens + ones and
\* 'two thousand [and] <n>' becomes 2000 + n
C14_CompoundYear ==
  numerals # Null =>
    numerals[1] = phrase[1].before \o NatToText(phrase[1].year)

-------------------------------------------------------------------------------
(* Slot matcher: POST /webhook/check-timeslots, findBestSlots, scoreSlot     *)

\* the first position from i on where t has a digit, or 0
digitFrom(t, i) == least({j \in i..Len(t) : IsDigit(t[j])})

\* the number moment's \d\d? reads at position i (0 when i = 0: no match)
oneOrTwoAt(t, i) ==
  IF i = 0 THEN 0
  ELSE IF i < Len(t) /\ IsDigit(t[i + 1]) THEN ToNat(SubSeq(t, i, i + 1))
  ELSE ToNat(SubSeq(t, i, i))

\* the position after that number
afterNumber(t, i) == IF i < Len(t) /\ IsDigit(t[i + 1]) THEN i + 2 ELSE i + 1

\* the position after the first ':' from i on, or i when there is none
afterColon(t, i) ==
  IF least({j \in i..Len(t) : t[j] = ":"}) = 0 THEN i
  ELSE least({j \in i..Len(t) : t[j] = ":"}) + 1

\* moment(t, 'HH:mm'), not strict, as the minute of the day: HH is the first
\* one or two digits of the text, mm the first one or two digits after the
\* next ':'; whatever else the text holds (AM, PM, an end time) is skipped.
\* hourAt is the position of the hour
minuteOfDay(t, hourAt) ==
  oneOrTwoAt(t, hourAt) * 60
    + oneOrTwoAt(t, digitFrom(t, afterColon(t, afterNumber(t, hourAt))))

momentHHmm(t) == minuteOfDay(t, digitFrom(t, 1))

Abs(n) == IF n < 0 THEN 0 - n ELSE n
Min(a, b) == IF a <= b THEN a ELSE b

\* getTimeDifference(time1, time2), in minutes
getTimeDifference(time1, time2) == Abs(momentHHmm(time1) - momentHHmm(time2))

\* the number of the day d in its year
RECURSIVE daysBefore(_, _)
daysBefore(y, m) == IF m = 1 THEN 0 ELSE daysBefore(y, m - 1) + daysInMonth(y, m - 1)

dayOfYear(d) == daysBefore(d.year, d.month) + d.day

\* slotDate.diff(prefDate, 'days') for two days of one year
diffDays(a, b) == dayOfYear(a) - dayOfYear(b)

\* the date part of scoreSlot, in tenths of a point
dateScore(slotDate, date) ==
  IF date = Null THEN 0
  ELSE IF Abs(diffDays(slotDate, date[1])) = 0 THEN 500
  ELSE 0 - Abs(diffDays(slotDate, date[1])) * 100

\* the time part of scoreSlot for a difference in minutes, in tenths: the
\* penalty min(timeDiff / 10, 50) is min(timeDiff, 500) tenths
timeScoreOf(timeDiff) ==
  IF timeDiff = 0 THEN 300
  ELSE IF timeDiff <= 30 THEN 200
  ELSE IF timeDiff <= 60 THEN 100
  ELSE 0 - Min(timeDiff, 500)

timeScore(slotTime, time) ==
  IF time = Null THEN 0 ELSE timeScoreOf(getTimeDifference(slotTime, time[1]))

\* the time-range part of scoreSlot for the minutes of the slot, of the
\* range's start and of its end, in tenths
rangeScoreOf(at, rangeStart, rangeEnd) ==
  IF at >= rangeStart /\ at <= rangeEnd THEN 250
  ELSE 0 - Min(Min(Abs(at - rangeStart), Abs(at - rangeEnd)), 300)

rangeScore(slotTime, timeRange) ==
  IF timeRange = Null THEN 0
  ELSE rangeScoreOf(momentHHmm(slotTime), momentHHmm(timeRange[1].start),
                    momentHHmm(timeRange[1].end))

\* scoreSlot(slot, preferences), in tenths of a point
scoreSlot(slot, preferences) ==
  Max(0, 1000 + dateScore(slot.date, preferences.date)
              + timeScore(slot.time, preferences.time)
              + rangeScore(slot.time, preferences.timeRange))

\* ---- the store ----

\* the day the caller asks for, and the server's day (UTC)
PreferredDate == Ymd(CurrentYear, 11, 10)
Today == Ymd(CurrentYear, 11, 4)

Doc(id, date, label, scheduledAvailable) ==
  [id |-> id, scheduledDate |-> date, scheduledTimeSlot |-> label,
   scheduledAvailable |-> scheduledAvailable]

TwoPm == <<"2",":","0","0"," ","P","M"," ","-"," ","2",":","1","5"," ","P","M">>
QuarterToThree == <<"2",":","4","5"," ","P","M"," ","-"," ","3",":","0","0"," ","P","M">>
TenAm == <<"1","0",":","0","0"," ","A","M"," ","-"," ","1","0",":","1","5"," ","A","M">>
NineAm == <<"9",":","0","0"," ","A","M"," ","-"," ","9",":","1","5"," ","A","M">>
ElevenAm == <<"1","1",":","0","0"," ","A","M"," ","-"," ","1","1",":","1","5"," ","A","M">>

\* documents of doctor_scheduling, in the order of their ids: the labels of
\* scheduledTimeSlot are written as '9:00 AM - 9:15 AM'
Documents ==
  <<Doc(1, PreferredDate, QuarterToThree, TRUE),
    Doc(2, PreferredDate, TwoPm, TRUE),
    Doc(3, PreferredDate, TenAm, TRUE),
    Doc(4, Ymd(CurrentYear, 11, 11), TwoPm, TRUE),
    Doc(5, Ymd(CurrentYear, 11, 13), TenAm, TRUE),
    Doc(6, PreferredDate, NineAm, FALSE),
    Doc(7, Ymd(CurrentYear, 11, 2), TenAm, TRUE),
    Doc(8, PreferredDate, TenAm, TRUE),
    Doc(9, PreferredDate, ElevenAm, TRUE),
    Doc(10, PreferredDate, NineAm, TRUE)>>

\* how upstream wrote the state of a document
Spellings == {"Texas", "TX", "TEXAS", "texas"}

\* the ids of the documents whose state is written the second way
SecondHalf == {4, 5, 8}

\* a store: the first n documents, the state written as first, or as second
\* for the documents of SecondHalf
Stored(n, first, second) ==
  [i \in 1..n |->
     [id |-> Documents[i].id,
      scheduledState |-> IF Documents[i].id \in SecondHalf THEN second ELSE first,
      scheduledDate |-> Documents[i].scheduledDate,
      scheduledTimeSlot |-> Documents[i].scheduledTimeSlot,
      scheduledAvailable |-> Documents[i].scheduledAvailable]]

Stores ==
  {Stored(n, first, second) :
     n \in {0, 2, 3, 5, Len(Documents)}, first \in Spellings, second \in {"TX", "Texas"}}

\* String.prototype.toUpperCase
toUpperCase(s) ==
  CASE s = "Texas" -> "TEXAS"
    [] s = "texas" -> "TEXAS"
    [] s = "tx" -> "TX"
    [] OTHER -> s

\* the documents a query's where clauses keep, in the order of their ids
onDate(docs, stateValue, date) ==
  SelectSeq(docs, LAMBDA d : d.scheduledState = stateValue /\ d.scheduledAvailable
                             /\ d.scheduledDate = date)

fromDay(docs, stateValue, day) ==
  SelectSeq(docs, LAMBDA d : d.scheduledState = stateValue /\ d.scheduledAvailable
                             /\ ~isBefore(d.scheduledDate, day))

\* docs with d put after the last document that is not later than d
RECURSIVE insertByDate(_, _)
insertByDate(docs, d) ==
  IF docs = <<>> THEN <<d>>
  ELSE IF isBefore(d.scheduledDate, docs[Len(docs)].scheduledDate)
    THEN Append(insertByDate(SubSeq(docs, 1, Len(docs) - 1), d), docs[Len(docs)])
  ELSE Append(docs, d)

\* orderBy('scheduledDate'): by date, documents of one date by id
RECURSIVE orderByDate(_)
orderByDate(docs) ==
  IF docs = <<>> THEN <<>>
  ELSE insertByDate(orderByDate(SubSeq(docs, 1, Len(docs) - 1)), docs[Len(docs)])

\* .limit(20)
FallbackLimit == 20

limit(docs, n) == SubSeq(docs, 1, Min(n, Len(docs)))

\* the snapshot of a query of the phase for stateValue
snapshot(docs, phase, stateValue, date) ==
  IF phase = "specific" THEN onDate(docs, stateValue, date[1])
  ELSE limit(orderByDate(fromDay(docs, stateValue, Today)), FallbackLimit)

\* stateValues with the upper-case forms first
stateValues_upperFirst(state, stateAbbr) ==
  SelectSeq(<<toUpperCase(state), toUpperCase(stateAbbr), state, stateAbbr>>,
            LAMBDA v : v # "")

\* [state, stateAbbr, state?.toUpperCase(), stateAbbr?.toUpperCase()]
\* .filter(Boolean): an absent value is ""
stateValues(state, stateAbbr) ==
  SelectSeq(<<state, stateAbbr, toUpperCase(state), toUpperCase(stateAbbr)>>,
            LAMBDA v : v # "")

\* ---- ranking ----

\* allSlots.map(...).filter(slot => slot.available)
normalizedSlots(docs) ==
  [i \in 1..Len(SelectSeq(docs, LAMBDA d : d.scheduledAvailable)) |->
     [id |-> SelectSeq(docs, LAMBDA d : d.scheduledAvailable)[i].id,
      date |-> SelectSeq(docs, LAMBDA d : d.scheduledAvailable)[i].scheduledDate,
      time |-> SelectSeq(docs, LAMBDA d : d.scheduledAvailable)[i].scheduledTimeSlot]]

\* normalizedSlots.map(slot => ({...slot, score: scoreSlot(slot, preferences)}))
scoredSlots(slots, preferences) ==
  [i \in 1..Len(slots) |->
     [id |-> slots[i].id, date |-> slots[i].date, time |-> slots[i].time,
      score |-> scoreSlot(slots[i], preferences)]]

\* insertByScore that puts a slot before the slots of its score
RECURSIVE insertByScore_beforeEqual(_, _)
insertByScore_beforeEqual(sorted, s) ==
  IF sorted = <<>> THEN <<s>>
  ELSE IF sorted[Len(sorted)].score <= s.score
    THEN Append(insertByScore_beforeEqual(SubSeq(sorted, 1, Len(sorted) - 1), s),
                sorted[Len(sorted)])
  ELSE Append(sorted, s)

\* sorted with s put after the last slot whose score is not lower: the
\* comparator is b.score - a.score and Array.prototype.sort is stable
RECURSIVE insertByScore(_, _)
insertByScore(sorted, s) ==
  IF sorted = <<>> THEN <<s>>
  ELSE IF sorted[Len(sorted)].score < s.score
    THEN Append(insertByScore(SubSeq(sorted, 1, Len(sorted) - 1), s),
                sorted[Len(sorted)])
  ELSE Append(sorted, s)

\* scoredSlots.sort((a, b) => b.score - a.score)
RECURSIVE sort(_)
sort(slots) ==
  IF slots = <<>> THEN <<>>
  ELSE insertByScore(sort(SubSeq(slots, 1, Len(slots) - 1)), slots[Len(slots)])

\* the limit the webhook passes to findBestSlots
Limit == 5

\* what findBestSlots returns for the documents collected
bestMatches(docs, preferences) ==
  limit(sort(scoredSlots(normalizedSlots(docs), preferences)), Limit)

\* bestSlots.map((slot, index) => ({rank: index + 1, ...}))
formattedSlots(bestSlots) ==
  [index \in 1..Len(bestSlots) |->
     [rank |-> index, date |-> bestSlots[index].date, time |-> bestSlots[index].time,
      score |-> bestSlots[index].score, slot_id |-> bestSlots[index].id]]

\* the webhook's response to the slots found
\* the response built without the optional chaining on formattedSlots[0]:
\* with no slot the handler throws and answers 500
slotsResponse_throwsOnNone(bestSlots) ==
  IF Len(bestSlots) = 0
    THEN [status |-> 500, has_slots |-> FALSE, total_matches |-> 0, best_slots |-> <<>>]
  ELSE [status |-> 200, has_slots |-> TRUE, total_matches |-> Len(bestSlots),
        best_slots |-> formattedSlots(bestSlots)]

slotsResponse(bestSlots) ==
  [status |-> 200, has_slots |-> Len(bestSlots) > 0, total_matches |-> Len(bestSlots),
   best_slots |-> formattedSlots(bestSlots)]

errorResponseOf(status) ==
  [status |-> status, has_slots |-> FALSE, total_matches |-> 0, best_slots |-> <<>>]

\* ---- the webhook ----

TwoOClock == <<"1","4",":","0","0">>
TenOClock == <<"1","0",":","0","0">>
Afternoon == [start |-> <<"1","2",":","0","0">>, end |-> <<"1","7",":","0","0">>]

\* the preferences of a request: preferred_date, preferred_time, time_range
Preferences ==
  {[date |-> d, time |-> t, timeRange |-> tr] :
     d \in {Null, Some(PreferredDate)},
     t \in {Null, Some(TwoOClock), Some(TenOClock)},
     tr \in {Null, Some(Afternoon)}}

\* state and state_abbreviation as callers send them; "" is an absent value
StatesSent ==
  {<<"Texas", "TX">>, <<"Texas", "">>, <<"texas", "tx">>, <<"", "tx">>, <<"", "">>}

\* the secret shared with the caller, and a key that is not the secret
SharedSecret == "shared-secret"
AnotherKey == "another-key"

\* JSON.stringify(req.body): the text of the body, one text per body
stringify(body) == <<body.state, body.stateAbbr, body.preferences>>

\* crypto.createHmac('sha256', key).update(payload).digest('hex'): the digest
\* is determined by the key and the payload, and no two of them share one
createHmac(key, payload) == <<"sha256", key, payload>>

Body(sent, preferences) ==
  [state |-> sent[1], stateAbbr |-> sent[2], preferences |-> preferences]

\* a request: the x-bland-signature header, Null when absent, and the body
SlotRequest(signature, sent, preferences) ==
  [signature |-> signature, state |-> sent[1], stateAbbr |-> sent[2],
   preferences |-> preferences]

NoPreference == [date |-> Null, time |-> Null, timeRange |-> Null]

\* the headers of requests that the holder of the secret did not sign as
\* they arrive: no header, a digest under another key, the digest of
\* another body
BadSignatures ==
  {Null,
   Some(createHmac(AnotherKey, stringify(Body(<<"Texas", "TX">>, NoPreference)))),
   Some(createHmac(SharedSecret, stringify(Body(<<"texas", "tx">>, NoPreference))))}

\* requests: signed with the shared secret, and those that are not
SlotRequests ==
  {SlotRequest(Some(createHmac(SharedSecret, stringify(Body(sent, p)))), sent, p) :
     sent \in StatesSent, p \in Preferences}
  \cup {SlotRequest(sig, <<"Texas", "TX">>, NoPreference) : sig \in BadSignatures}

\* verifyBlandWebhook without the comparison: every request verifies
verifyBlandWebhook_always(payload, signature) == TRUE

\* verifyBlandWebhook(payload, signature)
verifyBlandWebhook(payload, signature) ==
  IF SKIP_SIGNATURE THEN TRUE
  ELSE IF WEBHOOK_SECRET = "" THEN TRUE
  ELSE signature = Some(createHmac(WEBHOOK_SECRET, payload))

\* a query in flight: the phase and the index in stateValues
Query(phase, at) == [phase |-> phase, at |-> at]

\* the record of a query issued: found is Null until the store answers
Issued(phase, stateValue) == [phase |-> phase, stateValue |-> stateValue, found |-> Null]

InitSlots ==
  /\ WEBHOOK_SECRET \in {"", SharedSecret}
  /\ SKIP_SIGNATURE \in BOOLEAN
  /\ firestore \in Stores
  /\ slotReq = Null
  /\ pending = Null
  /\ queries = <<>>
  /\ allSlots = <<>>
  /\ slotRes = Null
  /\ TimeIdle
  /\ DobIdle
  /\ WordsIdle
  /\ RestIdle

\* findBestSlots issues the query of the phase for stateValues[at]
issue(r, phase, at, asked) ==
  /\ pending' = Some(Query(phase, at))
  /\ queries' = Append(asked, Issued(phase, stateValues(r.state, r.stateAbbr)[at]))
  /\ UNCHANGED <<allSlots, slotRes>>

\* findBestSlots has collected docs, returns, and the webhook responds
respond(r, docs, asked) ==
  /\ pending' = Null
  /\ queries' = asked
  /\ allSlots' = docs
  /\ slotRes' = Some(slotsResponse(bestMatches(docs, r.preferences)))

\* a request arrives: the handler up to its response, or up to the first
\* query that findBestSlots awaits
CheckTimeslots ==
  /\ slotReq = Null
  /\ \E r \in SlotRequests :
       /\ slotReq' = Some(r)
       /\ IF ~verifyBlandWebhook(stringify(r), r.signature)
            THEN /\ slotRes' = Some(errorResponseOf(401))
                 /\ UNCHANGED <<pending, queries, allSlots>>
          ELSE IF r.state = "" /\ r.stateAbbr = ""
            THEN /\ slotRes' = Some(errorResponseOf(400))
                 /\ UNCHANGED <<pending, queries, allSlots>>
          ELSE issue(r, IF r.preferences.date # Null THEN "specific" ELSE "fallback", 1, <<>>)
  /\ UNCHANGED <<WEBHOOK_SECRET, SKIP_SIGNATURE, firestore>>
  /\ UNCHANGED notSlotVars

\* the queries issued, with the answer to the last one recorded
answeredWith(asked, found) ==
  [asked EXCEPT ![Len(asked)].found = Some(Len(found))]

\* goOn without the fallback phase: the retrieval ends after the last state
\* value of the specific phase
goOn_noFallback(r, q, found) ==
  IF found # <<>> THEN respond(r, found, answeredWith(queries, found))
  ELSE IF q.at < Len(stateValues(r.state, r.stateAbbr))
    THEN issue(r, q.phase, q.at + 1, answeredWith(queries, found))
  ELSE respond(r, <<>>, answeredWith(queries, found))

\* findBestSlots goes on after the snapshot found of query q: a snapshot that
\* is not empty ends the retrieval, an empty one leads to the next state
\* value, then to the fallback phase, then to the end with nothing collected
goOn(r, q, found) ==
  IF found # <<>> THEN respond(r, found, answeredWith(queries, found))
  ELSE IF q.at < Len(stateValues(r.state, r.stateAbbr))
    THEN issue(r, q.phase, q.at + 1, answeredWith(queries, found))
  ELSE IF q.phase = "specific"
    THEN issue(r, "fallback", 1, answeredWith(queries, found))
  ELSE respond(r, <<>>, answeredWith(queries, found))

\* the store answers the query awaited
QueryReturns ==
  /\ pending # Null
  /\ goOn(slotReq[1], pending[1],
          snapshot(firestore, pending[1].phase,
                   stateValues(slotReq[1].state, slotReq[1].stateAbbr)[pending[1].at],
                   slotReq[1].preferences.date))
  /\ UNCHANGED <<WEBHOOK_SECRET, SKIP_SIGNATURE, firestore, slotReq>>
  /\ UNCHANGED notSlotVars

\* the store fails on the query awaited: findBestSlots rethrows and the
\* webhook answers 500
QueryFails ==
  /\ pending # Null
  /\ pending' = Null
  /\ slotRes' = Some(errorResponseOf(500))
  /\ UNCHANGED <<WEBHOOK_SECRET, SKIP_SIGNATURE, firestore, slotReq, queries, allSlots>>
  /\ UNCHANGED notSlotVars

NextSlots ==
  \/ CheckTimeslots
  \/ QueryReturns
  \/ QueryFails

SpecSlots == InitSlots /\ [][NextSlots]_vars

\* the store answers every query in the end, with a snapshot or an error
FairSlots == SpecSlots /\ WF_vars(QueryFails \/ QueryReturns)

-------------------------------------------------------------------------------
(* Properties of the slot matcher *)

\* the webhook has answered with the slots found
SlotsReturned == slotRes # Null /\ slotRes[1].status = 200

\* the place of the document id in the order of retrieval
retrievedAt(id) == least({i \in 1..Len(allSlots) : allSlots[i].id = id})

\* the slots collected, scored, in the order of retrieval
Candidates == scoredSlots(normalizedSlots(allSlots), slotReq[1].preferences)

\* best is the ranking of the candidates cs that the claim describes
rankedTopOf(best, cs) ==
  /\ Len(best) = Min(Limit, Len(cs))
  /\ \A i \in 1..Len(best) :
       /\ best[i].rank = i
       /\ \E k \in 1..Len(cs) : cs[k].id = best[i].slot_id /\ cs[k].score = best[i].score
  /\ \A i, j \in 1..Len(best) :
       i < j => \/ best[i].score > best[j].score
                \/ /\ best[i].score = best[j].score
                   /\ retrievedAt(best[i].slot_id) < retrievedAt(best[j].slot_id)
  /\ \A k \in 1..Len(cs) :
       (\A i \in 1..Len(best) : best[i].slot_id # cs[k].id)
         => \A i \in 1..Len(best) : cs[k].score <= best[i].score

\* C17: the response holds at most `limit` (5) of the slots collected, by
\* score descending, slots of one score in the order of retrieval, with the
\* ranks 1..n in that order, and no slot left out has a higher score than a
\* slot returned
C17_RankedTop == SlotsReturned => rankedTopOf(slotRes[1].best_slots, Candidates)

\* more slots than the limit were collected, and two of those returned have
\* one score
C17_Witness ==
  /\ SlotsReturned
  /\ Len(Candidates) > Limit
  /\ Len(slotRes[1].best_slots) = Limit
  /\ \E i \in 1..(Limit - 1) :
       slotRes[1].best_slots[i].score = slotRes[1].best_slots[i + 1].score
  /\ slotRes[1].best_slots[1].score > slotRes[1].best_slots[Limit].score
  /\ slotRes[1].best_slots[Limit].score > 0

\* the places in queries of the queries of a phase
queriesOf(phase) == {i \in 1..Len(queries) : queries[i].phase = phase}

\* the specific phase is over and has collected nothing, or never ran
NothingSpecific ==
  \A i \in queriesOf("specific") : queries[i].found = Some(0)

\* findBestSlots is at work on a request or has returned
Retrieving == slotReq # Null /\ (pending # Null \/ SlotsReturned)

\* docs are documents from today on, by date ascending, FallbackLimit at most
futureAscending(docs) ==
  /\ Len(docs) <= FallbackLimit
  /\ \A i \in 1..Len(docs) : ~isBefore(docs[i].scheduledDate, Today)
  /\ \A i, j \in 1..Len(docs) : i < j => ~isBefore(docs[j].scheduledDate, docs[i].scheduledDate)

\* C18: with a preferred date the exact-date queries come first; a fallback
\* query (available slots from today on, by date, 20 at most) is issued if
\* and only if the exact-date phase collected no slot or no date was given;
\* the slots collected are those of the exact date or those of the fallback
\* phase, never both
C18_TwoPhases ==
  Retrieving =>
    /\ slotReq[1].preferences.date = Null => queriesOf("specific") = {}
    /\ slotReq[1].preferences.date # Null => queries[1].phase = "specific"
    /\ \A i \in queriesOf("fallback") : \A j \in queriesOf("specific") : j < i
    /\ queriesOf("fallback") # {} => NothingSpecific
    /\ (SlotsReturned /\ NothingSpecific) => queriesOf("fallback") # {}
    /\ IF queriesOf("fallback") = {}
         THEN \A i \in 1..Len(allSlots) : allSlots[i].scheduledDate = slotReq[1].preferences.date[1]
       ELSE futureAscending(allSlots)

\* the exact-date phase found nothing under any state value, and the
\* fallback phase collected slots of other days
C18_Witness ==
  /\ SlotsReturned
  /\ Cardinality(queriesOf("specific")) > 1
  /\ queriesOf("fallback") # {}
  /\ Len(allSlots) > 1
  /\ allSlots[1].scheduledDate # allSlots[Len(allSlots)].scheduledDate

\* the state values of the request in the order of the claim: state,
\* stateAbbr, upper-case state, upper-case stateAbbr, the absent ones left out
VariantsInOrder ==
  SelectSeq(<<slotReq[1].state, slotReq[1].stateAbbr,
              toUpperCase(slotReq[1].state), toUpperCase(slotReq[1].stateAbbr)>>,
            LAMBDA v : v # "")

\* the number of queries of the phase of query i up to query i
placeInPhase(i) == Cardinality({j \in queriesOf(queries[i].phase) : j <= i})

\* the most queries one request can cause
MaxQueries == 8

\* the queries issued follow the order of the state values in each phase,
\* only the last one has found documents, the documents collected are
\* written with the state value of that query, and no more than MaxQueries
\* queries were issued
OneVariantInOrder ==
  slotReq # Null =>
    /\ Len(queries) <= MaxQueries
    /\ \A i \in 1..Len(queries) :
         /\ placeInPhase(i) <= Len(VariantsInOrder)
         /\ queries[i].stateValue = VariantsInOrder[placeInPhase(i)]
         /\ i < Len(queries) => queries[i].found = Some(0)
    /\ \A k \in 1..Len(allSlots) :
         allSlots[k].scheduledState = queries[Len(queries)].stateValue

\* C19: in each phase the store is asked with state, stateAbbr, upper-case
\* state, upper-case stateAbbr in that order, absent values left out, and no
\* further query follows one that found documents, so the documents used
\* come from one state value and at most 8 queries are issued; and
\* findBestSlots comes to an end: every request is answered
C19_VariantsThenStop ==
  /\ []OneVariantInOrder
  /\ [](slotReq # Null => <>(slotRes # Null))

\* six queries were needed: none of the four state values has a slot on the
\* preferred day, the second one has slots on other days
C19_Witness ==
  /\ SlotsReturned
  /\ Len(queries) = 6
  /\ queries[6].found # Some(0)
  /\ queries[6].stateValue = slotReq[1].stateAbbr
  /\ allSlots # <<>>

\* the start of a slot as the webhook reads its label ('h:mm A' of the part
\* before the '-'), as the minute of the day
startOfSlot(label) ==
  (oneOrTwoAt(label, digitFrom(label, 1)) % 12) * 60
    + oneOrTwoAt(label, digitFrom(label, afterColon(label, 1)))
    + (IF label[least({j \in 1..Len(label) : label[j] \in {"A", "P"}})] = "P" THEN 720 ELSE 0)

\* the minutes between the start of a returned slot and the preferred time
timeDistance(slot) ==
  Abs(startOfSlot(slot.time) - momentHHmm(slotReq[1].preferences.time[1]))

\* the days between a returned slot and the preferred date
dateDistance(slot) == Abs(diffDays(slot.date, slotReq[1].preferences.date[1]))

\* the request names a time and no time range
PrefersTimeOnly ==
  slotReq[1].preferences.time # Null /\ slotReq[1].preferences.timeRange = Null

\* the distance of the claim's example, in minutes
ExampleDistance == 45

\* C20: of two returned slots that differ in their time only, the one nearer
\* to the preferred time has no lower score, and of two that differ in their
\* date only, the one nearer to the preferred date has no lower score; a slot
\* of the preferred date at the preferred time ranks before one of that date
\* 45 minutes away
C20_NearerScoresNoLower ==
  SlotsReturned =>
    \A i, j \in 1..Len(slotRes[1].best_slots) :
      /\ (/\ PrefersTimeOnly
          /\ slotRes[1].best_slots[i].date = slotRes[1].best_slots[j].date
          /\ timeDistance(slotRes[1].best_slots[i]) <= timeDistance(slotRes[1].best_slots[j]))
           => slotRes[1].best_slots[i].score >= slotRes[1].best_slots[j].score
      /\ (/\ slotReq[1].preferences.date # Null
          /\ slotRes[1].best_slots[i].time = slotRes[1].best_slots[j].time
          /\ dateDistance(slotRes[1].best_slots[i]) <= dateDistance(slotRes[1].best_slots[j]))
           => slotRes[1].best_slots[i].score >= slotRes[1].best_slots[j].score
      /\ (/\ PrefersTimeOnly
          /\ slotRes[1].best_slots[i].date = slotRes[1].best_slots[j].date
          /\ timeDistance(slotRes[1].best_slots[i]) = 0
          /\ timeDistance(slotRes[1].best_slots[j]) = ExampleDistance)
           => slotRes[1].best_slots[i].rank < slotRes[1].best_slots[j].rank

\* the terms of the score as stated, in tenths of a point, for a returned
\* slot whose label starts at minute `at` of the day
statedDateTerm(slot) ==
  IF slotReq[1].preferences.date = Null THEN 0
  ELSE IF dateDistance(slot) = 0 THEN 500
  ELSE 0 - 100 * dateDistance(slot)

statedTimeTerm(slot) ==
  IF slotReq[1].preferences.time = Null THEN 0
  ELSE IF timeDistance(slot) = 0 THEN 300
  ELSE IF timeDistance(slot) <= 30 THEN 200
  ELSE IF timeDistance(slot) <= 60 THEN 100
  ELSE 0 - Min(timeDistance(slot), 500)

statedRangeTermOf(at, rangeStart, rangeEnd) ==
  IF rangeStart <= at /\ at <= rangeEnd THEN 250
  ELSE 0 - Min(Min(Abs(at - rangeStart), Abs(at - rangeEnd)), 300)

statedRangeTerm(slot) ==
  IF slotReq[1].preferences.timeRange = Null THEN 0
  ELSE statedRangeTermOf(startOfSlot(slot.time),
                         momentHHmm(slotReq[1].preferences.timeRange[1].start),
                         momentHHmm(slotReq[1].preferences.timeRange[1].end))

\* 205 points, in tenths
HighestScore == 2050

\* C21: the score of every returned slot is max(0, 100 + dateTerm + timeTerm
\* + rangeTerm), the date term +50 on the preferred date and -10 a day
\* otherwise, the range term +25 for a slot time within [start, end], both
\* ends included, and -min(distance to the nearer end / 10, 30) otherwise;
\* it is never negative and never above 205
C21_ScoreAsStated ==
  SlotsReturned =>
    \A i \in 1..Len(slotRes[1].best_slots) :
      /\ slotRes[1].best_slots[i].score =
           Max(0, 1000 + statedDateTerm(slotRes[1].best_slots[i])
                       + statedTimeTerm(slotRes[1].best_slots[i])
                       + statedRangeTerm(slotRes[1].best_slots[i]))
      /\ slotRes[1].best_slots[i].score >= 0
      /\ slotRes[1].best_slots[i].score <= HighestScore

\* ---- C22 ----

\* every query the handler issued for the request came back, and none of
\* them with a document
EveryQueryEmpty ==
  /\ slotReq # Null
  /\ pending = Null
  /\ queries # <<>>
  /\ \A i \in 1..Len(queries) : queries[i].found = Some(0)

\* C22: when every store query for the state returns no available slot, the
\* webhook answers without error, status 200, with has_slots false,
\* total_matches 0 and an empty best_slots list.
C22_NoSlotsIsNoError ==
  EveryQueryEmpty =>
    /\ slotRes # Null
    /\ slotRes[1].status = 200
    /\ slotRes[1].has_slots = FALSE
    /\ slotRes[1].total_matches = 0
    /\ slotRes[1].best_slots = <<>>

\* C22 witness: a request for a preferred date went through both phases and
\* all its state values with nothing found, and was answered
C22_Witness ==
  /\ EveryQueryEmpty
  /\ slotRes # Null
  /\ slotRes[1].status = 200
  /\ Len(queries) >= 4
  /\ firestore # <<>>

\* ---- C23 ----

\* the request that arrived does not carry the digest of its payload under
\* the configured secret
NotSignedWithSecret ==
  /\ slotReq # Null
  /\ slotReq[1].signature # Some(createHmac(WEBHOOK_SECRET, stringify(slotReq[1])))

VerificationRequired == WEBHOOK_SECRET # "" /\ ~SKIP_SIGNATURE

\* C23: with a secret configured and the skip flag not set, a request whose
\* signature header is absent or differs from the HMAC-SHA256 of the payload
\* is answered 401 and no store query is ever issued for it; a request is
\* answered 401 only when verification is required, never when no secret is
\* configured or the skip flag is set.
C23_UnsignedRejected ==
  /\ (VerificationRequired /\ NotSignedWithSecret) =>
        /\ slotRes # Null
        /\ slotRes[1].status = 401
        /\ pending = Null
        /\ queries = <<>>
  /\ (slotRes # Null /\ slotRes[1].status = 401) =>
        (VerificationRequired /\ NotSignedWithSecret)

\* C23 witness: a secret is configured, the flag is not set, and a request
\* signed with another key was turned away
C23_Witness ==
  /\ VerificationRequired
  /\ slotReq # Null
  /\ slotReq[1].signature # Null
  /\ slotReq[1].signature[1][2] = AnotherKey
  /\ slotRes # Null
  /\ slotRes[1].status = 401
  /\ queries = <<>>

------------------------------------------------------------------------------
(* POST /api/enhanced-parse-natural-time of the time parser that caches its  *)
(* parsed patterns, with its warmup endpoint and its clock                   *)

\* the characters of /[\.,;:!_\-\/]+/
Punctuation == {".", ",", ";", ":", "!", "_", "-", "/"}

\* s.replace(/[\.,;:!_\-\/]+/g, ' ').replace(/\s+/g, ' ').trim()
withoutPunctuation(s) ==
  collapseSpaces([i \in 1..Len(s) |-> IF s[i] \in Punctuation THEN " " ELSE s[i]])

\* the collapsed week phrases, in the order of the object's keys
phraseMap ==
  <<
    <<<<"a","n","y","t","i","m","e","t","h","i","s","w","e","e","k">>, <<"a","n","y","t","i","m","e"," ","t","h","i","s"," ","w","e","e","k">>>>,
    <<<<"a","n","y","t","i","m","e","n","e","x","t","w","e","e","k">>, <<"a","n","y","t","i","m","e"," ","n","e","x","t"," ","w","e","e","k">>>>,
    <<<<"a","n","y"," ","t","i","m","e"," ","t","h","i","s","w","e","e","k">>, <<"a","n","y","t","i","m","e"," ","t","h","i","s"," ","w","e","e","k">>>>,
    <<<<"a","n","y"," ","t","i","m","e"," ","n","e","x","t","w","e","e","k">>, <<"a","n","y","t","i","m","e"," ","n","e","x","t"," ","w","e","e","k">>>>,
    <<<<"t","h","i","s","w","e","e","k">>, <<"t","h","i","s"," ","w","e","e","k">>>>,
    <<<<"n","e","x","t","w","e","e","k">>, <<"n","e","x","t"," ","w","e","e","k">>>>,
    <<<<"t","h","i","s","c","o","m","i","n","g","w","e","e","k">>, <<"t","h","i","s"," ","c","o","m","i","n","g"," ","w","e","e","k">>>>,
    <<<<"c","o","m","i","n","g","w","e","e","k">>, <<"c","o","m","i","n","g"," ","w","e","e","k">>>>
  >>

\* the synonyms and their canonical forms, in the order of the replace calls
synonyms ==
  <<
    <<<<"t","h","i","s"," ","c","o","m","i","n","g"," ","w","e","e","k">>, <<"t","h","i","s"," ","w","e","e","k">>>>,
    <<<<"c","o","m","i","n","g"," ","w","e","e","k">>, <<"t","h","i","s"," ","w","e","e","k">>>>,
    <<<<"i","n"," ","t","h","e"," ","n","e","x","t"," ","w","e","e","k">>, <<"a","n","y","t","i","m","e"," ","i","n"," ","t","h","e"," ","n","e","x","t"," ","w","e","e","k">>>>,
    <<<<"t","h","e"," ","n","e","x","t"," ","w","e","e","k">>, <<"n","e","x","t"," ","w","e","e","k">>>>,
    <<<<"n","e","x","t"," ","s","e","v","e","n"," ","d","a","y","s">>, <<"a","n","y","t","i","m","e"," ","i","n"," ","t","h","e"," ","n","e","x","t"," ","s","e","v","e","n"," ","d","a","y","s">>>>,
    <<<<"n","e","x","t"," ","7"," ","d","a","y","s">>, <<"a","n","y","t","i","m","e"," ","i","n"," ","t","h","e"," ","n","e","x","t"," ","s","e","v","e","n"," ","d","a","y","s">>>>,
    <<<<"w","h","e","n","e","v","e","r"," ","w","o","r","k","s">>, <<"a","n","y","t","i","m","e">>>>,
    <<<<"w","h","e","n","e","v","e","r">>, <<"a","n","y","t","i","m","e">>>>,
    <<<<"n","o"," ","p","r","e","f","e","r","e","n","c","e">>, <<"a","n","y","t","i","m","e">>>>,
    <<<<"s","o","o","n","e","s","t">>, <<"n","e","x","t"," ","a","v","a","i","l","a","b","l","e">>>>,
    <<<<"a","s"," ","s","o","o","n"," ","a","s"," ","p","o","s","s","i","b","l","e">>, <<"n","e","x","t"," ","a","v","a","i","l","a","b","l","e">>>>,
    <<<<"a","s","a","p">>, <<"n","e","x","t"," ","a","v","a","i","l","a","b","l","e">>>>,
    <<<<"f","i","r","s","t"," ","a","v","a","i","l","a","b","l","e">>, <<"n","e","x","t"," ","a","v","a","i","l","a","b","l","e">>>>,
    <<<<"e","n","d"," ","o","f"," ","d","a","y">>, <<"e","v","e","n","i","n","g">>>>,
    <<<<"e","o","d">>, <<"e","v","e","n","i","n","g">>>>,
    <<<<"a","f","t","e","r"," ","w","o","r","k">>, <<"e","v","e","n","i","n","g">>>>,
    <<<<"a","f","t","e","r"," ","h","o","u","r","s">>, <<"e","v","e","n","i","n","g">>>>,
    <<<<"f","i","r","s","t"," ","t","h","i","n","g">>, <<"m","o","r","n","i","n","g">>>>,
    <<<<"b","e","f","o","r","e"," ","w","o","r","k">>, <<"m","o","r","n","i","n","g">>>>,
    <<<<"t","o","n","i","g","h","t">>, <<"e","v","e","n","i","n","g">>>>,
    <<<<"t","h","i","s"," ","e","v","e","n","i","n","g">>, <<"e","v","e","n","i","n","g">>>>,
    <<<<"l","u","n","c","h","t","i","m","e">>, <<"n","o","o","n">>>>,
    <<<<"l","u","n","c","h">>, <<"n","o","o","n">>>>,
    <<<<"m","i","d","d","a","y">>, <<"n","o","o","n">>>>
  >>

\* the replacements of a table applied in order, from entry i on
RECURSIVE replaceEach(_, _, _)
replaceEach(s, table, i) ==
  IF i > Len(table) THEN s
  ELSE IF Includes(s, table[i][1])
    THEN replaceEach(ReplaceAll(s, table[i][1], table[i][2]), table, i + 1)
  ELSE replaceEach(s, table, i + 1)

\* normalizePhrases(rawInput)
normalizePhrases(rawInput) ==
  replaceEach(replaceEach(withoutPunctuation(toLowerCase(rawInput)), phraseMap, 1),
              synonyms, 1)

MinutesPerDay == 1440

NewYork == "America/New_York"
LosAngeles == "America/Los_Angeles"

\* minutes that the zone's wall clock is ahead of New York's
utcOffsetOf(timezone) == IF timezone = LosAngeles THEN 0 - 180 ELSE 0

\* moment.tz(timezone): the day number of the zone's current date
currentDate(now, timezone) == (now + utcOffsetOf(timezone)) \div MinutesPerDay

\* getNextWeekday(currentDate, targetDay)
getNextWeekday(d, targetDay) ==
  IF d % DaysPerWeek <= targetDay THEN d - (d % DaysPerWeek) + targetDay
  ELSE d + DaysPerWeek - (d % DaysPerWeek) + targetDay

\* the patterns in the order of the object's keys, each with its date
specificPatterns(d) ==
  <<
    <<Lex.tomorrow, d + 1>>,
    <<Lex.today, d>>,
    <<Lex.monday, getNextWeekday(d, 1)>>,
    <<Lex.tuesday, getNextWeekday(d, 2)>>,
    <<Lex.wednesday, getNextWeekday(d, 3)>>,
    <<Lex.thursday, getNextWeekday(d, 4)>>,
    <<Lex.friday, getNextWeekday(d, 5)>>,
    <<Lex.saturday, getNextWeekday(d, 6)>>,
    <<Lex.sunday, getNextWeekday(d, 0)>>
  >>

\* the date of the first specific pattern the input includes, or Null
specificDate(normalizedInput, d) ==
  IF \E i \in 1..Len(specificPatterns(d)) : Includes(normalizedInput, specificPatterns(d)[i][1])
    THEN Some(specificPatterns(d)[
           least({i \in 1..Len(specificPatterns(d)) :
                    Includes(normalizedInput, specificPatterns(d)[i][1])})][2])
  ELSE Null

PatternResult(date, start, end, confidence, request_type) ==
  [date |-> date, date_range |-> [start |-> start, end |-> end],
   confidence |-> confidence, request_type |-> request_type]

broadResult(r) == PatternResult(r.start, r.start, r.end, "high", "broad")

\* parseNaturalTime(normalizedInput, timezone, requestId) on day d of the
\* zone, for inputs that name no month with a day number
parseNaturalTime_patterns(normalizedInput, d) ==
  IF broadRange(normalizedInput, d) # Null
    THEN broadResult(broadRange(normalizedInput, d)[1])
  ELSE IF specificDate(normalizedInput, d) # Null
    THEN PatternResult(specificDate(normalizedInput, d)[1], specificDate(normalizedInput, d)[1],
                       specificDate(normalizedInput, d)[1], "high", "specific")
  ELSE PatternResult(d, d, d + DaysPerWeek, "low", "fallback")

\* stdTTL: 300 seconds, in minutes
StdTTL == 5

\* `parse:${normalizedInput}:${timezone}`
patternKey(normalizedInput, timezone) == [input |-> normalizedInput, timezone |-> timezone]

\* the entries that cache.get still returns at time now
live(store, now) ==
  [k \in {j \in DOMAIN store : now <= store[j].expires} |-> store[k]]

\* cache.set(key, result) at time now
cacheSet(store, key, result, now) ==
  [k \in DOMAIN store \cup {key} |->
     IF k = key THEN [result |-> result, expires |-> now + StdTTL] ELSE store[k]]

commonPatterns ==
  <<<<"a","n","y","t","i","m","e"," ","t","h","i","s"," ","w","e","e","k">>, <<"a","n","y","t","i","m","e"," ","n","e","x","t"," ","w","e","e","k">>, <<"t","o","m","o","r","r","o","w">>, <<"t","o","d","a","y">>, <<"n","e","x","t"," ","a","v","a","i","l","a","b","l","e">>>>

\* the cache keys of the common patterns
commonKeys ==
  {patternKey(normalizePhrases(commonPatterns[i]), NewYork) : i \in 1..Len(commonPatterns)}

\* preloadCommonPatterns() at time now: cache.set for every common pattern
preloadCommonPatterns(store, now) ==
  [k \in DOMAIN store \cup commonKeys |->
     IF k \in commonKeys
       THEN [result |-> parseNaturalTime_patterns(k.input, currentDate(now, NewYork)),
             expires |-> now + StdTTL]
     ELSE store[k]]

\* what callers say
NaturalTimes ==
  {<<"T","o","m","o","r","r","o","w",".">>,
   <<"t","h","i","s","w","e","e","k">>,
   <<"x","y","z">>,
   <<>>}

\* the last minutes of a day
LateEvening == 1437

\* Tuesday and Saturday, late in the evening in New York
StartClocks == {2 * MinutesPerDay + LateEvening, 6 * MinutesPerDay + LateEvening}

\* the clock's step and the last minute of the next day it reaches
ClockStep == 3
LastMinute == 6

InitPattern ==
  /\ clock \in StartClocks
  /\ patterns = preloadCommonPatterns(<<>>, clock)
  /\ parseReq = Null
  /\ parseRes = Null
  /\ TimeIdle
  /\ OnlyPattern

\* the response: the status, the result's fields, whether it came from the
\* cache, and the time it was sent
PatternResponse(status, result, cached, now) ==
  [status |-> status, date |-> result.date, date_range |-> result.date_range,
   confidence |-> result.confidence, cached |-> cached, sent |-> now]

\* the handler on a body whose key is cached
servedFromCache(key) ==
  /\ parseRes' = Some(PatternResponse(200,
                   [date |-> Some(patterns[key].result.date),
                    date_range |-> Some(patterns[key].result.date_range),
                    confidence |-> patterns[key].result.confidence], TRUE, clock))
  /\ UNCHANGED patterns

\* the handler on a body whose key is not cached
parsedAfresh(key, result) ==
  /\ parseRes' = Some(PatternResponse(200,
                   [date |-> Some(result.date), date_range |-> Some(result.date_range),
                    confidence |-> result.confidence], FALSE, clock))
  /\ patterns' = IF result.confidence = "high"
                   THEN cacheSet(live(patterns, clock), key, result, clock)
                 ELSE patterns

\* POST /api/enhanced-parse-natural-time
ParsePattern ==
  /\ \E natural_time \in NaturalTimes, timezone \in {Null, Some(LosAngeles)} :
       /\ parseReq' = Some([natural_time |-> natural_time, timezone |-> timezone])
       /\ IF natural_time = <<>>
            THEN /\ parseRes' = Some(PatternResponse(400,
                      [date |-> Null, date_range |-> Null, confidence |-> ""], FALSE, clock))
                 /\ UNCHANGED patterns
          ELSE IF patternKey(normalizePhrases(natural_time), orDefault(timezone, NewYork))
                    \in DOMAIN live(patterns, clock)
            THEN servedFromCache(patternKey(normalizePhrases(natural_time),
                                            orDefault(timezone, NewYork)))
          ELSE parsedAfresh(patternKey(normalizePhrases(natural_time),
                                       orDefault(timezone, NewYork)),
                 parseNaturalTime_patterns(normalizePhrases(natural_time),
                   currentDate(clock, orDefault(timezone, NewYork))))
  /\ UNCHANGED clock
  /\ UNCHANGED <<timeVars, notPatternVars>>

\* GET /_ah/warmup
Warmup ==
  /\ patterns' = preloadCommonPatterns(live(patterns, clock), clock)
  /\ UNCHANGED <<clock, parseReq, parseRes>>
  /\ UNCHANGED <<timeVars, notPatternVars>>

\* time passes; the cache's periodic check deletes what has expired
Tick ==
  /\ clock % MinutesPerDay >= LateEvening \/ clock % MinutesPerDay < LastMinute
  /\ clock' = clock + ClockStep
  /\ patterns' = live(patterns, clock + ClockStep)
  /\ UNCHANGED <<parseReq, parseRes>>
  /\ UNCHANGED <<timeVars, notPatternVars>>

NextPattern ==
  \/ ParsePattern
  \/ Warmup
  \/ Tick

SpecPattern == InitPattern /\ [][NextPattern]_vars

\* the response was served from the cache
PatternHit == parseRes # Null /\ parseRes[1].cached

\* what parseNaturalTime computes for the request at the time the response
\* was sent
computedWhenSent ==
  parseNaturalTime_patterns(normalizePhrases(parseReq[1].natural_time),
    currentDate(parseRes[1].sent, orDefault(parseReq[1].timezone, NewYork)))

\* C25: the pattern cache is transparent: a response served from the cache
\* carries the date and the date_range that parseNaturalTime would compute
\* at the moment the response is served, for any sequence of requests,
\* warmups and clock advances.
C25_PatternCacheTransparent ==
  PatternHit =>
    /\ parseRes[1].date = Some(computedWhenSent.date)
    /\ parseRes[1].date_range = Some(computedWhenSent.date_range)

------------------------------------------------------------------------------
(* executeWithRetry(operation, requestId, maxRetries = 3): a step runs from  *)
(* one await to the next: the call of the operation, the timer of the        *)
(* backoff                                                                   *)

\* the default of maxRetries, which the only call leaves in place
MaxRetries == 3

BaseDelay == 1000
DelayCap == 5000

RECURSIVE pow(_, _)
pow(b, n) == IF n = 0 THEN 1 ELSE b * pow(b, n - 1)

\* Math.min(1000 * Math.pow(2, attempt - 1), 5000)
delay(n) == Min(BaseDelay * pow(2, n - 1), DelayCap)

\* the backoff that also follows the last attempt
backsOff_afterLast(n, maxRetries) == n <= maxRetries

\* if (attempt < maxRetries)
backsOff(n, maxRetries) == n < maxRetries

\* what query.get() rejects with, and what it resolves to
QueryErrors == {"UNAVAILABLE", "DEADLINE_EXCEEDED", "ABORTED", "INTERNAL"}
Snapshots == {"empty", "documents"}

\* executeWithRetry has been called and awaits the operation's first call
InitRetry ==
  /\ attempt = 1
  /\ retryPc = "operation"
  /\ lastError = Null
  /\ rejections = <<>>
  /\ waited = <<>>
  /\ invoked = 1
  /\ settled = Null
  /\ TimeIdle
  /\ OnlyRetry

\* the operation resolves: return await operation()
OperationResolves ==
  /\ retryPc = "operation"
  /\ \E got \in Snapshots : settled' = Some(got)
  /\ retryPc' = "returned"
  /\ UNCHANGED <<attempt, lastError, rejections, waited, invoked>>
  /\ UNCHANGED <<timeVars, notRetryVars>>

\* the loop goes on after attempt n: the next call, or throw lastError
nextAttempt(n, error) ==
  IF n + 1 <= MaxRetries
    THEN /\ attempt' = n + 1
         /\ invoked' = invoked + 1
         /\ retryPc' = "operation"
         /\ UNCHANGED settled
  ELSE /\ attempt' = n + 1
       /\ retryPc' = "thrown"
       /\ settled' = error
       /\ UNCHANGED invoked

\* the operation rejects: the catch block, up to the timer or, after the
\* last attempt, to the throw
OperationRejects ==
  /\ retryPc = "operation"
  /\ \E error \in QueryErrors :
       /\ lastError' = Some(error)
       /\ rejections' = Append(rejections, error)
       /\ IF backsOff(attempt, MaxRetries)
            THEN /\ waited' = Append(waited, delay(attempt))
                 /\ retryPc' = "timer"
                 /\ UNCHANGED <<attempt, invoked, settled>>
          ELSE /\ nextAttempt(attempt, Some(error))
               /\ UNCHANGED waited
  /\ UNCHANGED <<timeVars, notRetryVars>>

\* the timer of the backoff fires
TimerFires ==
  /\ retryPc = "timer"
  /\ nextAttempt(attempt, lastError)
  /\ UNCHANGED <<lastError, rejections, waited>>
  /\ UNCHANGED <<timeVars, notRetryVars>>

NextRetry ==
  \/ OperationResolves
  \/ OperationRejects
  \/ TimerFires

SpecRetry == InitRetry /\ [][NextRetry]_vars

\* the operation settles and the timers fire
FairRetry ==
  SpecRetry /\ WF_vars(OperationResolves \/ OperationRejects) /\ WF_vars(TimerFires)

\* the delays grow from one timer to the next until they reach the cap
Growing(ds) ==
  \A i \in 1..Len(ds) :
    /\ ds[i] <= DelayCap
    /\ i > 1 => (ds[i] > ds[i - 1] \/ ds[i] = DelayCap)

RetryBounded ==
  /\ invoked <= MaxRetries
  /\ invoked = attempt \/ retryPc = "thrown"
  /\ Len(rejections) <= MaxRetries

\* the value returned is that of the first call that resolved: every call
\* before rejected and none followed
FirstSuccess ==
  retryPc = "returned" =>
    /\ settled # Null
    /\ settled[1] \in Snapshots
    /\ invoked = Len(rejections) + 1

\* one timer after every failed attempt but the last
WaitsBetween ==
  /\ Growing(waited)
  /\ Len(waited) = Min(Len(rejections), MaxRetries - 1)
  /\ retryPc = "timer" => Len(rejections) < MaxRetries

ThrowsLast ==
  retryPc = "thrown" <=>
    /\ Len(rejections) = MaxRetries
    /\ settled = Some(rejections[MaxRetries])

\* C26: executeWithRetry calls the operation at most maxRetries (3) times,
\* returns the first success, waits a growing delay capped at 5 s between
\* attempts and never after the last, throws the last error after maxRetries
\* failures, and always comes to an end.
C26_RetryTerminates ==
  /\ [](RetryBounded /\ FirstSuccess /\ WaitsBetween /\ ThrowsLast)
  /\ <>(retryPc \in {"returned", "thrown"})

\* C26 witness: three failures with two timers between them, the last error
\* thrown
C26_Witness ==
  /\ retryPc = "thrown"
  /\ invoked = MaxRetries
  /\ waited = <<BaseDelay, 2 * BaseDelay>>
  /\ rejections[1] # rejections[3]
  /\ settled = Some(rejections[3])

------------------------------------------------------------------------------
(* POST /api/available-slots of the availability service: the handler up to  *)
(* the availability query.  A step runs from one await to the next: the      *)
(* lookup of the zip code's document is the only one before the query.       *)

Braces == {<<"{","{">>, <<"}","}">>}
PlaceholderWords == {<<"a","n","y">>, <<"n","u","l","l">>, <<"u","n","d","e","f","i","n","e","d">>}

\* a value is truthy: neither undefined nor the empty string
Given(val) == val # Null /\ val[1] # <<>>

\* isTemplatePlaceholder(val)
isTemplatePlaceholder(val) ==
  IF ~Given(val) THEN FALSE
  ELSE \/ \E b \in Braces : Includes(trim(val[1]), b)
       \/ toLowerCase(trim(val[1])) \in PlaceholderWords

\* String.prototype.toUpperCase, on the letters of the abbreviations sent
UpperChar(c) ==
  CASE c = "t" -> "T" [] c = "x" -> "X" [] c = "n" -> "N" [] c = "y" -> "Y"
    [] OTHER -> c

upperCaseText(t) == [i \in 1..Len(t) |-> UpperChar(t[i])]

\* String(zipCode).replace(/\D/g, '').substring(0, 5)
cleanZip(zipCode) ==
  SubSeq(SelectSeq(zipCode, IsDigit), 1, Min(5, Len(SelectSeq(zipCode, IsDigit))))

ZipLength == 5

\* the static mapping used during the migration
fallbackMap ==
  <<<<<<"1","0","0","0","1">>, <<"N","Y">>>>,
    <<<<"9","0","2","1","0">>, <<"C","A">>>>,
    <<<<"6","0","6","0","1">>, <<"I","L">>>>,
    <<<<"3","3","1","0","1">>, <<"F","L">>>>>>

fallbackState(zip) ==
  IF \E i \in 1..Len(fallbackMap) : fallbackMap[i][1] = zip
    THEN Some(fallbackMap[CHOOSE i \in 1..Len(fallbackMap) : fallbackMap[i][1] = zip][2])
  ELSE Null

\* a field names a state: it is given and no placeholder
Usable(val) == Given(val) /\ ~isTemplatePlaceholder(val)

\* resolvePatientState up to the zip code: the state of the first usable
\* field, or Null
resolvedBeforeZip(body) ==
  IF Usable(body.patient_state) THEN body.patient_state
  ELSE IF Usable(body.auto_state) THEN body.auto_state
  ELSE IF Usable(body.auto_state_abbreviation)
    THEN Some(upperCaseText(trim(body.auto_state_abbreviation[1])))
  ELSE Null

\* resolvePatientState comes to the zip code
derivesFromZip(body) ==
  resolvedBeforeZip(body) = Null /\ Given(body.patient_zipcode)

\* the identifiers in scope where normalizeRequestParams builds its result
InScope ==
  {"date", "days_to_check", "is_multi_day", "request_type", "time_of_day",
   "time_window", "time_filter", "patient_state", "auto_state",
   "auto_state_abbreviation", "patient_zipcode", "patient_timezone",
   "actualPatientState", "isMultiDay", "normalizedDays", "datesToCheck",
   "timezone", "body", "requestId"}

\* the identifiers the returned object literal reads, in order
ReadOnReturn ==
  <<"date", "datesToCheck", "isMultiDay", "requestType", "time_of_day",
    "time_window", "time_filter", "actualPatientState", "patient_zipcode", "timezone">>

Params(patientState, timezone) ==
  [thrown |-> "", patientState |-> patientState, timezone |-> timezone]

Thrown(error) == [thrown |-> error, patientState |-> Null, timezone |-> Null]

Chicago == "America/Chicago"

\* getStateAbbreviation(stateName) as far as it can throw: stateName.trim()
trimThrows(stateName) == stateName = Null

\* the object literal that normalizeRequestParams returns
returned(reads, patientState, timezone) ==
  IF \E i \in 1..Len(reads) : reads[i] \notin InScope
    THEN Thrown("ReferenceError")
  ELSE Params(patientState, timezone)

\* normalizeRequestParams(body, requestId) after resolvePatientState
\* returned actualPatientState
normalizeRequestParams(body, actualPatientState) ==
  IF body.patient_timezone = Null /\ trimThrows(actualPatientState)
    THEN Thrown("TypeError")
  ELSE returned(ReadOnReturn, actualPatientState,
                IF body.patient_timezone # Null THEN body.patient_timezone
                ELSE Some(Chicago))

AvailResponse(status, needs_state, has_slots, available_slots) ==
  [status |-> status, needs_state |-> needs_state, has_slots |-> has_slots,
   available_slots |-> available_slots]

\* the handler from the return of resolvePatientState on: the response, or
\* the cache lookup and the availability query
afterResolve(body, state) ==
  /\ avState' = Some(state)
  /\ IF normalizeRequestParams(body, state).thrown # ""
       THEN /\ avRes' = Some(AvailResponse(500, Null, Null, Null))
            /\ avPc' = "done"
     ELSE IF normalizeRequestParams(body, state).patientState = Null
       THEN /\ avRes' = Some(AvailResponse(200, Some(TRUE), Some(FALSE), Some(<<>>)))
            /\ avPc' = "done"
     ELSE /\ avRes' = Null
          /\ avPc' = "fetch"

\* what callers send for the state fields
StateTexts == {Null, Some(<<"{","{","p","a","t","i","e","n","t","_","s","t","a","t","e","}","}">>), Some(<<"a","n","y">>), Some(<<"T","e","x","a","s">>)}
AbbreviationTexts == {Null, Some(<<"n","u","l","l">>), Some(<<" ","t","x"," ">>)}
ZipTexts == {Null, Some(<<"1","0","0","0","1">>), Some(<<"1","0","0","0">>), Some(<<"7","5","0","0","1","-","1","2","3","4">>)}

AvailBodies ==
  [patient_state : StateTexts, auto_state : {Null, Some(<<"a","n","y">>), Some(<<"T","e","x","a","s">>)},
   auto_state_abbreviation : AbbreviationTexts, patient_zipcode : ZipTexts,
   patient_timezone : {Null, Some(Chicago)}]

\* the documents of zip_codes that a lookup can find: none, or one that
\* names a state
ZipDocs == {Null, Some(<<"T","X">>)}

InitAvail ==
  /\ avCache = <<>>
  /\ avReq = Null
  /\ avPc = "idle"
  /\ avState = Null
  /\ avRes = Null
  /\ TimeIdle
  /\ OnlyAvail

\* deriveStateFromZip up to the document lookup: a zip code without five
\* digits derives nothing, a cached one its state
AvailableSlots ==
  /\ avPc \in {"idle", "done"}
  /\ \E body \in AvailBodies :
       /\ avReq' = Some(body)
       /\ IF ~derivesFromZip(body)
            THEN afterResolve(body, resolvedBeforeZip(body))
          ELSE IF Len(cleanZip(body.patient_zipcode[1])) # ZipLength
            THEN afterResolve(body, Null)
          ELSE IF cleanZip(body.patient_zipcode[1]) \in DOMAIN avCache
            THEN afterResolve(body, Some(avCache[cleanZip(body.patient_zipcode[1])]))
          ELSE /\ avPc' = "zip"
               /\ avState' = Null
               /\ avRes' = Null
  /\ UNCHANGED avCache
  /\ UNCHANGED <<timeVars, notAvailVars>>

\* cache.set(cacheKey, { state_abbreviation: state }, 3600)
zipCached(store, zip, state) ==
  [k \in DOMAIN store \cup {zip} |-> IF k = zip THEN state ELSE store[k]]

\* zipRef.get() resolves
ZipLookupReturns ==
  /\ avPc = "zip"
  /\ \E doc \in ZipDocs :
       IF doc # Null
         THEN /\ avCache' = zipCached(avCache, cleanZip(avReq[1].patient_zipcode[1]), doc[1])
              /\ afterResolve(avReq[1], doc)
       ELSE /\ UNCHANGED avCache
            /\ afterResolve(avReq[1], fallbackState(cleanZip(avReq[1].patient_zipcode[1])))
  /\ UNCHANGED avReq
  /\ UNCHANGED <<timeVars, notAvailVars>>

\* zipRef.get() rejects: deriveStateFromZip returns null
ZipLookupFails ==
  /\ avPc = "zip"
  /\ afterResolve(avReq[1], Null)
  /\ UNCHANGED <<avCache, avReq>>
  /\ UNCHANGED <<timeVars, notAvailVars>>

NextAvail ==
  \/ AvailableSlots
  \/ ZipLookupReturns
  \/ ZipLookupFails

SpecAvail == InitAvail /\ [][NextAvail]_vars

\* resolvePatientState has returned for the request
Resolved == avReq # Null /\ avState # Null

\* C27: a request from which no patient state can be resolved is answered
\* with status 200, needs_state true, has_slots false and an empty slot
\* list, and no availability query is sent; a request with a resolvable
\* state proceeds to the cache lookup and the store query.
C27_NeedsState ==
  Resolved =>
    IF avState[1] = Null
      THEN /\ avPc = "done"
           /\ avRes # Null
           /\ avRes[1].status = 200
           /\ avRes[1].needs_state = Some(TRUE)
           /\ avRes[1].has_slots = Some(FALSE)
           /\ avRes[1].available_slots = Some(<<>>)
    ELSE avPc = "fetch" /\ avRes = Null

------------------------------------------------------------------------------
(* POST /api/available-slots of the mock availability service.  The dates of *)
(* the mock data are days of January 2024, which compare as their            *)
(* 'YYYY-MM-DD' strings do.                                                  *)

Appointment(day, provider_id, number) ==
  [date |-> day, provider_id |-> provider_id, appointment_id |-> number]

MOCK_APPOINTMENTS ==
  <<
    Appointment(15, "123", 1),
    Appointment(15, "123", 2),
    Appointment(16, "124", 3),
    Appointment(16, "124", 4),
    Appointment(17, "123", 5)
  >>

EXTENDED_MOCK_APPOINTMENTS ==
  <<
    Appointment(15, "123", 1),
    Appointment(15, "123", 2),
    Appointment(15, "123", 3),
    Appointment(15, "123", 4),
    Appointment(15, "123", 5),
    Appointment(16, "124", 6),
    Appointment(16, "124", 7),
    Appointment(16, "124", 8),
    Appointment(16, "124", 9),
    Appointment(16, "124", 10),
    Appointment(17, "125", 11),
    Appointment(17, "125", 12),
    Appointment(17, "125", 13),
    Appointment(17, "125", 14),
    Appointment(17, "125", 15),
    Appointment(22, "123", 16),
    Appointment(22, "123", 17),
    Appointment(22, "123", 18),
    Appointment(23, "124", 19),
    Appointment(23, "124", 20)
  >>

\* Array.prototype.slice(0, end) for an integer end: a negative end counts
\* from the array's end
slice(xs, end) ==
  IF end < 0 THEN SubSeq(xs, 1, Max(Len(xs) + end, 0))
  ELSE SubSeq(xs, 1, Min(end, Len(xs)))

MaxOptions == 5

\* the filters of the handler: provider_id, start_date, end_date
byProvider(xs, provider_id) ==
  IF provider_id = Null THEN xs
  ELSE SelectSeq(xs, LAMBDA apt : apt.provider_id = provider_id[1])

fromDate(xs, start_date) ==
  IF start_date = Null THEN xs
  ELSE SelectSeq(xs, LAMBDA apt : apt.date >= start_date[1])

toDate(xs, end_date) ==
  IF end_date = Null THEN xs
  ELSE SelectSeq(xs, LAMBDA apt : apt.date <= end_date[1])

\* const limitedAppointments = appointments.slice(0, Math.min(limit, 5))
limitedAppointments(body) ==
  slice(toDate(fromDate(byProvider(IF orDefault(body.extended, FALSE)
                                     THEN EXTENDED_MOCK_APPOINTMENTS
                                   ELSE MOCK_APPOINTMENTS,
                                   body.provider_id),
                        body.start_date),
               body.end_date),
        Min(orDefault(body.limit, MaxOptions), MaxOptions))

\* the limits callers send: none, zero, negative ones, ones up to and above 5
Limits == {Null, Some(0), Some(0 - 1), Some(0 - 3), Some(2), Some(5), Some(7), Some(25)}

MockBodies ==
  [start_date : {Null, Some(16), Some(22)}, end_date : {Null, Some(16), Some(17)},
   provider_id : {Null, Some("123"), Some("125"), Some("999")},
   limit : Limits, extended : {Null, Some(TRUE)}]

InitMock ==
  /\ mockReq = Null
  /\ mockRes = Null
  /\ TimeIdle
  /\ OnlyMock

\* the handler
MockAvailableSlots ==
  /\ mockReq = Null
  /\ \E body \in MockBodies :
       /\ mockReq' = Some(body)
       /\ mockRes' = Some([status |-> 200,
                           has_slots |-> Len(limitedAppointments(body)) > 0,
                           total_slots |-> Len(limitedAppointments(body)),
                           slots |-> limitedAppointments(body)])
  /\ UNCHANGED <<timeVars, notMockVars>>

NextMock == MockAvailableSlots

SpecMock == InitMock /\ [][NextMock]_vars

\* C28: the mock endpoint returns at most 5 slots for every value of limit,
\* zero, negative and above 5 included; total_slots is the number of slots
\* returned and has_slots is true exactly when that number is positive.
C28_AtMostFive ==
  mockRes # Null =>
    /\ Len(mockRes[1].slots) <= MaxOptions
    /\ mockRes[1].total_slots = Len(mockRes[1].slots)
    /\ mockRes[1].has_slots <=> (mockRes[1].total_slots > 0)

------------------------------------------------------------------------------
(* enhancedWordSeparation applied to texts of separate vocabulary words      *)

\* the keywords that follow another word in the texts
SecondWords == <<Lex.morning, Lex.week, Lex.day, Lex.time, Lex.monday, Lex.may>>

\* one keyword, or a keyword, a space and a second word
VocabularyTexts ==
  {allKeywords[i] : i \in 1..Len(allKeywords)}
  \cup {Join(<<allKeywords[i], SecondWords[j]>>) :
          i \in 1..Len(allKeywords), j \in 1..Len(SecondWords)}

InitSep ==
  /\ spoken \in {Some(t) : t \in VocabularyTexts}
  /\ separated = Null
  /\ reseparated = Null
  /\ TimeIdle
  /\ OnlySep

\* separated = enhancedWordSeparation(text)
Separate ==
  /\ separated = Null
  /\ separated' = Some(enhancedWordSeparation(spoken[1]))
  /\ UNCHANGED <<spoken, reseparated>>
  /\ UNCHANGED <<timeVars, notSepVars>>

\* the result goes through enhancedWordSeparation again
SeparateAgain ==
  /\ separated # Null
  /\ reseparated = Null
  /\ reseparated' = Some(enhancedWordSeparation(separated[1]))
  /\ UNCHANGED <<spoken, separated>>
  /\ UNCHANGED <<timeVars, notSepVars>>

NextSep ==
  \/ Separate
  \/ SeparateAgain

SpecSep == InitSep /\ [][NextSep]_vars

\* C29: the word separation only inserts spaces between words that were
\* stuck together: a text of vocabulary words separated by spaces comes
\* back unchanged, and separating twice gives what separating once gives.
C29_SeparationIdle ==
  /\ separated # Null => separated = spoken
  /\ reseparated # Null => reseparated = separated

------------------------------------------------------------------------------
(* POST / of the email cleaner: cleanEmail with the Natural Language API     *)
(* and manualClean.  A step runs up to the await of analyzeEntities, the     *)
(* next from its answer to the response.                                     *)

\* Dictionary for common domain misspellings
domainCorrections ==
  <<
    <<<<"g","m","a","i","l","d","o","t","c","o","m">>, <<"g","m","a","i","l",".","c","o","m">>>>,
    <<<<"g","m","a","i","l","d","o","t","c","o">>, <<"g","m","a","i","l",".","c","o","m">>>>,
    <<<<"g","m","a","i","l","d","o","t">>, <<"g","m","a","i","l",".","c","o","m">>>>,
    <<<<"g","m","a","i","l","c","o","m">>, <<"g","m","a","i","l",".","c","o","m">>>>,
    <<<<"g","a","i","l","d","o","t","c","o","m">>, <<"g","m","a","i","l",".","c","o","m">>>>,
    <<<<"g","a","i","l","d","o","t","c","o">>, <<"g","m","a","i","l",".","c","o","m">>>>,
    <<<<"g","a","i","l","d","o","t">>, <<"g","m","a","i","l",".","c","o","m">>>>,
    <<<<"g","a","i","l","c","o","m">>, <<"g","m","a","i","l",".","c","o","m">>>>,
    <<<<"g","h","a","i","l","d","o","t","c","o","m">>, <<"g","m","a","i","l",".","c","o","m">>>>,
    <<<<"g","h","a","i","l","d","o","t","c","o">>, <<"g","m","a","i","l",".","c","o","m">>>>,
    <<<<"g","h","a","i","l","d","o","t">>, <<"g","m","a","i","l",".","c","o","m">>>>,
    <<<<"g","h","a","i","l","c","o","m">>, <<"g","m","a","i","l",".","c","o","m">>>>,
    <<<<"y","a","h","o","o","d","o","t","c","o","m">>, <<"y","a","h","o","o",".","c","o","m">>>>,
    <<<<"y","a","h","o","o","d","o","t","c","o">>, <<"y","a","h","o","o",".","c","o","m">>>>,
    <<<<"y","a","h","o","o","d","o","t">>, <<"y","a","h","o","o",".","c","o","m">>>>,
    <<<<"y","a","h","o","o","c","o","m">>, <<"y","a","h","o","o",".","c","o","m">>>>,
    <<<<"y","a","h","o","d","o","t","c","o","m">>, <<"y","a","h","o","o",".","c","o","m">>>>,
    <<<<"y","a","h","o","d","o","t","c","o">>, <<"y","a","h","o","o",".","c","o","m">>>>,
    <<<<"y","a","h","o","d","o","t">>, <<"y","a","h","o","o",".","c","o","m">>>>,
    <<<<"y","a","h","o","c","o","m">>, <<"y","a","h","o","o",".","c","o","m">>>>,
    <<<<"o","u","t","l","o","o","k","d","o","t","c","o","m">>, <<"o","u","t","l","o","o","k",".","c","o","m">>>>,
    <<<<"o","u","t","l","o","o","k","d","o","t","c","o">>, <<"o","u","t","l","o","o","k",".","c","o","m">>>>,
    <<<<"o","u","t","l","o","o","k","d","o","t">>, <<"o","u","t","l","o","o","k",".","c","o","m">>>>,
    <<<<"o","u","t","l","o","o","k","c","o","m">>, <<"o","u","t","l","o","o","k",".","c","o","m">>>>,
    <<<<"h","o","t","m","a","i","l","d","o","t","c","o","m">>, <<"h","o","t","m","a","i","l",".","c","o","m">>>>,
    <<<<"h","o","t","m","a","l","e","d","o","t","c","o","m">>, <<"h","o","t","m","a","i","l",".","c","o","m">>>>,
    <<<<"h","o","t","m","a","l","e","c","o","m">>, <<"h","o","t","m","a","i","l",".","c","o","m">>>>,
    <<<<"l","i","v","e","d","o","t","c","o","m">>, <<"l","i","v","e",".","c","o","m">>>>,
    <<<<"l","i","v","e","d","o","t","c","o">>, <<"l","i","v","e",".","c","o","m">>>>,
    <<<<"l","i","v","e","d","o","t">>, <<"l","i","v","e",".","c","o","m">>>>,
    <<<<"l","i","v","e","c","o","m">>, <<"l","i","v","e",".","c","o","m">>>>,
    <<<<"i","c","l","o","u","d","d","o","t","c","o","m">>, <<"i","c","l","o","u","d",".","c","o","m">>>>,
    <<<<"i","c","l","o","u","d","d","o","t","c","o">>, <<"i","c","l","o","u","d",".","c","o","m">>>>,
    <<<<"i","c","l","o","u","d","d","o","t">>, <<"i","c","l","o","u","d",".","c","o","m">>>>,
    <<<<"i","c","l","o","u","d","c","o","m">>, <<"i","c","l","o","u","d",".","c","o","m">>>>,
    <<<<"a","o","l","c","o","m">>, <<"a","o","l",".","c","o","m">>>>,
    <<<<"p","r","o","t","o","n","m","a","i","l","d","o","t","c","o","m">>, <<"p","r","o","t","o","n","m","a","i","l",".","c","o","m">>>>,
    <<<<"y","a","n","d","e","x","d","o","t","c","o","m">>, <<"y","a","n","d","e","x",".","c","o","m">>>>,
    <<<<"m","a","i","l","d","o","t","c","o","m">>, <<"m","a","i","l",".","c","o","m">>>>,
    <<<<"e","x","a","m","p","l","e","c","o","m">>, <<"e","x","a","m","p","l","e",".","c","o","m">>>>
  >>

tldCorrections ==
  <<
    <<<<"c","o","m","m">>, <<"c","o","m">>>>,
    <<<<"c","o">>, <<"c","o","m">>>>,
    <<<<"n","t">>, <<"n","e","t">>>>,
    <<<<"o","g">>, <<"o","r","g">>>>
  >>

\* table[key], or Null when the table has no such key
lookup(table, key) ==
  IF \E i \in 1..Len(table) : table[i][1] = key
    THEN Some(table[CHOOSE i \in 1..Len(table) : table[i][1] = key][2])
  ELSE Null

\* String.prototype.split(ch): the pieces between the occurrences of ch
RECURSIVE split(_, _)
split(t, ch) ==
  IF \E i \in 1..Len(t) : t[i] = ch
    THEN <<SubSeq(t, 1, least({i \in 1..Len(t) : t[i] = ch}) - 1)>>
           \o split(SubSeq(t, least({i \in 1..Len(t) : t[i] = ch}) + 1, Len(t)), ch)
  ELSE <<t>>

\* Array.prototype.join(ch)
RECURSIVE joinWith(_, _)
joinWith(parts, ch) ==
  IF Len(parts) = 0 THEN <<>>
  ELSE IF Len(parts) = 1 THEN parts[1]
  ELSE parts[1] \o <<ch>> \o joinWith(Tail(parts), ch)

\* let [localPart, domainPart] = cleaned.split('@')
localPart(cleaned) == split(cleaned, "@")[1]
domainPart(cleaned) ==
  IF Len(split(cleaned, "@")) >= 2 THEN Some(split(cleaned, "@")[2]) ELSE Null

\* toLowerCase, the spaces removed, 'attherateof' and 'at' replaced by '@'
spokenAt(emailString) ==
  ReplaceAll(ReplaceAll(SelectSeq(toLowerCase(emailString), LAMBDA c : c # " "),
                        <<"a","t","t","h","e","r","a","t","e","o","f">>, <<"@">>),
             <<"a","t">>, <<"@">>)

\* Apply domain corrections before replacing 'dot'
domainCorrected(cleaned) ==
  IF domainPart(cleaned) # Null /\ lookup(domainCorrections, domainPart(cleaned)[1]) # Null
    THEN localPart(cleaned) \o <<"@">> \o lookup(domainCorrections, domainPart(cleaned)[1])[1]
  ELSE cleaned

spokenDot(cleaned) == ReplaceAll(cleaned, <<"d","o","t">>, <<".">>)

\* the last element of an array that is not empty
lastOf(parts) == parts[Len(parts)]

\* the domain with its last label replaced
withTld(domain, tld) ==
  joinWith(SubSeq(split(domain, "."), 1, Len(split(domain, ".")) - 1) \o <<tld>>, ".")

\* TLD correction
tldCorrected(cleaned) ==
  IF domainPart(cleaned) # Null /\ domainPart(cleaned)[1] # <<>>
     /\ lookup(tldCorrections, lastOf(split(domainPart(cleaned)[1], "."))) # Null
    THEN localPart(cleaned) \o <<"@">>
           \o withTld(domainPart(cleaned)[1],
                      lookup(tldCorrections, lastOf(split(domainPart(cleaned)[1], ".")))[1])
  ELSE cleaned

\* Final cleanup for repeated characters
finalCleanup(cleaned) ==
  ReplaceAll(ReplaceAll(cleaned, <<"@","@">>, <<"@">>), <<".",".">>, <<".">>)

\* manualClean(emailString)
manualClean(emailString) ==
  finalCleanup(tldCorrected(spokenDot(domainCorrected(spokenAt(emailString)))))

\* the characters that email-validator's tester accepts in the local part,
\* the dot apart
IsLocalChar(c) ==
  IsLetter(c) \/ IsDigit(c)
    \/ c \in {"-", "!", "#", "$", "%", "&", "'", "*", "+", "/", "=", "?", "^", "_",
              "{", "|", "}", "~"}

IsAlnum(c) == IsLetter(c) \/ IsDigit(c)

AllOf(t, Ok(_)) == \A i \in 1..Len(t) : Ok(t[i])

\* (\.?[...])*: pieces between single dots, none empty
localOk(local) ==
  \A i \in 1..Len(split(local, ".")) :
    split(local, ".")[i] # <<>> /\ AllOf(split(local, ".")[i], IsLocalChar)

\* a label of the domain: letters and digits, hyphens between them
labelOk(label) ==
  /\ label # <<>>
  /\ IsAlnum(label[1])
  /\ IsAlnum(label[Len(label)])
  /\ AllOf(label, LAMBDA c : IsAlnum(c) \/ c = "-")

\* [a-zA-Z0-9](-*\.?[a-zA-Z0-9])*\.[a-zA-Z](-?[a-zA-Z0-9])+
domainOk(domain) ==
  /\ Len(split(domain, ".")) >= 2
  /\ \A i \in 1..Len(split(domain, ".")) : labelOk(split(domain, ".")[i])
  /\ IsLetter(lastOf(split(domain, "."))[1])
  /\ Len(lastOf(split(domain, "."))) >= 2

\* validator.validate(email)
validateEmail(email) ==
  /\ Len(split(email, "@")) = 2
  /\ localOk(split(email, "@")[1])
  /\ domainOk(split(email, "@")[2])

\* what analyzeEntities answers: it rejects, or it resolves to entities with
\* no EMAIL among them or with an EMAIL entity of some name
Rejected == [kind |-> "rejected", name |-> <<>>]
NoEmailEntity == [kind |-> "entities", name |-> Null]
EmailEntity(name) == [kind |-> "entities", name |-> Some(name)]

EntityNames ==
  {<<"t","e","s","t","@","e","x","a","m","p","l","e",".","c","o","m">>,
   <<"n","o","t"," ","a","n"," ","e","m","a","i","l">>,
   <<"t","e","s","t"," ","a","t"," ","e","x","a","m","p","l","e"," ","d","o","t"," ","c","o","m">>,
   <<>>}

Analyses(rawEmail) ==
  {Rejected, NoEmailEntity, EmailEntity(rawEmail)}
  \cup {EmailEntity(name) : name \in EntityNames}

\* the entity's name is used: it is not empty and cleans to a valid address
entityUsed(answer) ==
  /\ answer.kind = "entities"
  /\ answer.name # Null
  /\ answer.name[1] # <<>>
  /\ validateEmail(manualClean(answer.name[1]))

\* cleanEmail(rawEmail), the API answering answer; a rejection is caught and
\* logged
cleanEmail(rawEmail, answer) ==
  IF entityUsed(answer) THEN manualClean(answer.name[1])
  ELSE manualClean(rawEmail)

\* what callers send as email
RawEmails ==
  {<<"t","e","s","t","@","e","x","a","m","p","l","e",".","c","o","m">>,
   <<"T","e","s","t","@","e","x","a","m","p","l","e",".","c","o","m">>,
   <<"u","s","e","r","@","e","x","a","m","p","l","e",".","c","o">>,
   <<"k","a","t","e","@","e","x","a","m","p","l","e",".","c","o","m">>,
   <<" ","t","e","s","t"," ","a","t"," ","e","x","a","m","p","l","e"," ","d","o","t"," ","c","o","m"," ">>,
   <<"t","e","s","t","@","g","m","a","i","l","c","o","m">>,
   <<"m","y"," ","e","m","a","i","l"," ","i","s"," ","t","e","s","t"," ","a","t"," ","e","x","a","m","p","l","e"," ","d","o","t"," ","c","o","m">>,
   <<"t","e","s","t","@","e","x","a","m","p","l","e",".",".","c","o","m">>,
   <<"t","e","s","t","@","y","a","h","o","o","d","o","t","c","o">>,
   <<"t","e","s","t","@","o","u","t","l","o","o","k","d","o","t">>,
   <<"t","e","s","t"," ","u","s","e","r","@","e","x","a","m","p","l","e",".","c","o","m">>,
   <<"t","e","s","t",".","u","s","e","r","@","e","x","a","m","p","l","e",".","c","o","m">>,
   <<"t","e","s","t","@",".","c","o","m">>,
   <<"@","e","x","a","m","p","l","e",".","c","o","m">>,
   <<"t","e","s","t","@","l","o","c","a","l","h","o","s","t">>}

InitEmail ==
  /\ emailReq = Null
  /\ analysis = Null
  /\ emailRes = Null
  /\ TimeIdle
  /\ OnlyEmail

EmailResponse(status, cleaned_email, is_valid) ==
  [status |-> status, cleaned_email |-> cleaned_email, is_valid |-> is_valid]

\* the handler up to the await of analyzeEntities, or to the 400 response
PostEmail ==
  /\ emailReq = Null
  /\ \E email \in RawEmails \cup {<<>>} :
       /\ emailReq' = Some(email)
       /\ emailRes' = IF email = <<>> THEN Some(EmailResponse(400, Null, FALSE)) ELSE Null
  /\ UNCHANGED analysis
  /\ UNCHANGED <<timeVars, notEmailVars>>

\* res.json({original_email, cleaned_email, is_valid})
responseFor(cleanedEmail) ==
  Some(EmailResponse(200, Some(cleanedEmail), validateEmail(cleanedEmail)))

\* analyzeEntities settles: the rest of cleanEmail and of the handler
AnalysisSettles ==
  /\ emailReq # Null
  /\ emailRes = Null
  /\ \E answer \in Analyses(emailReq[1]) :
       /\ analysis' = Some(answer)
       /\ emailRes' = responseFor(cleanEmail(emailReq[1], answer))
  /\ UNCHANGED emailReq
  /\ UNCHANGED <<timeVars, notEmailVars>>

NextEmail ==
  \/ PostEmail
  \/ AnalysisSettles

SpecEmail == InitEmail /\ [][NextEmail]_vars

\* cleanEmail has returned for the request
Cleaned == emailReq # Null /\ analysis # Null /\ emailRes # Null

\* the API gave nothing to use: it rejected, found no EMAIL entity, or one
\* whose cleaned form is no valid address
NothingFromApi ==
  \/ analysis[1].kind = "rejected"
  \/ analysis[1].name = Null
  \/ ~validateEmail(manualClean(analysis[1].name[1]))

SpokenTokens == {<<"a","t">>, <<"d","o","t">>, <<" ">>}

\* a well-formed address that holds none of the spoken tokens
PlainAddress(email) ==
  validateEmail(email) /\ \A tok \in SpokenTokens : ~Includes(email, tok)

\* C30 (first half): cleanEmail never lets a failure of the Natural Language
\* API through: when the call throws, finds no EMAIL entity, or finds one
\* whose cleaned form is no valid address, the result is
\* manualClean(rawEmail).
C30_FallsBackToManual ==
  (Cleaned /\ NothingFromApi) =>
    /\ emailRes[1].status = 200
    /\ emailRes[1].cleaned_email = Some(manualClean(emailReq[1]))

\* C30 as stated: the fallback, and an input that is already a well-formed
\* address with no spoken tokens is returned unchanged.
C30_CleanEmail ==
  /\ C30_FallsBackToManual
  /\ (Cleaned /\ PlainAddress(emailReq[1])) =>
        emailRes[1].cleaned_email = Some(emailReq[1])

====
